---------------------------- MODULE Spec2Model ----------------------------
(***************************************************************************)
(* Model of the sync-side request handlers of the node                     *)
(* (crates/pathfinder/src/p2p_network/sync_handlers.rs): the iteration     *)
(* engine `iterate`, the five per-block handlers and the storage queries   *)
(* they issue.  One behaviour of Spec is the service of one request        *)
(* against one storage snapshot.                                           *)
(***************************************************************************)
EXTENDS Integers, Sequences, FiniteSets, TLC

(***************************************************************************)
(* Bounds.  Block numbers and the u64 wire integers are scaled down; the   *)
(* ratio i64::MAX : u64::MAX of BlockNumber::MAX to the wire range is      *)
(* kept, so that both "number outside the BlockNumber range" and u64       *)
(* overflow of checked_add happen.  MAX_BLOCKS_COUNT is the build-time     *)
(* ceiling of sync_handlers.rs:29 (100; 10 under cfg(test), line 32-34),   *)
(* scaled down likewise: iterate is parametric in it.                      *)
(***************************************************************************)
BLOCK_NUMBER_MAX == 3

MAX_BLOCKS_COUNT == 3

U64_MAX == 2 * BLOCK_NUMBER_MAX + 1

MaxLimit == MAX_BLOCKS_COUNT + 1

Blocks == 0 .. BLOCK_NUMBER_MAX

(***************************************************************************)
(* Option and Result.  Option<T> is a sequence of length at most one, so   *)
(* that None compares with Some(x) for every x.                            *)
(***************************************************************************)
None == << >>

Some(x) == << x >>

Ok(v) == [ok |-> TRUE, v |-> v]

Err == [ok |-> FALSE, v |-> None]

(***************************************************************************)
(* Request vocabulary (p2p_proto::common).                                 *)
(***************************************************************************)
Kinds == {"headers", "bodies", "transactions", "receipts", "events"}

Directions == {"Forward", "Backward"}

BlockHashOf(n) == << "block_hash", n >>

Number(n) == << "Number", n >>

Hash(h) == << "Hash", h >>

Starts == {Number(n) : n \in 0 .. U64_MAX} \cup {Hash(BlockHashOf(n)) : n \in Blocks}

\* Wire values of the step field: 0 (ill-formed), small steps, and the
\* largest u64, which overflows checked_add from every block.
Steps == {0, 1, 2, U64_MAX}

FinOk == "ok"

FinUnknown == "unknown"

FinTooMuch == "too_much"

\* BlockNumber::new: a u64 is a block number iff it is at most i64::MAX.
BlockNumber_new(n) == IF n <= BLOCK_NUMBER_MAX THEN Some(n) ELSE None

\* Step: the wire value 0 is ill-formed, every other value is taken as is.
Step_decode(s) == IF s = 0 THEN None ELSE Some(s)

BlockId(number, hash) == [number |-> number, hash |-> hash]

(***************************************************************************)
(* Storage snapshot `tx`: the set of stored blocks and at most one         *)
(* anomaly (a failing query or a damaged / missing piece of data) located  *)
(* at one block.  The contents of a stored block are a fixed function of   *)
(* its number, chosen so that blocks differ: with / without signature,     *)
(* with / without declared Cairo and Sierra classes, with zero to two      *)
(* transactions whose receipts hold zero to two events.                    *)
(***************************************************************************)
NoAnomaly == [what |-> "none", at |-> 0]

QueryFaults(kind) ==
    CASE kind = "headers" -> {"err_block_id", "err_block_header", "err_signature"}
      [] kind = "bodies" -> {"err_block_id", "err_state_update",
                             "err_class_definition_at", "err_casm_definition"}
      [] OTHER -> {"err_block_id", "err_transaction_data"}

DataAnomalies(kind) ==
    CASE kind = "headers" -> {}
      [] kind = "bodies" -> {"no_state_update", "class_missing", "cairo_with_casm",
                             "sierra_without_casm", "bad_json"}
      [] OTHER -> {"no_transaction_data"}

Hit(tx, what, n) == tx.anomaly.what = what /\ tx.anomaly.at = n

HasSignature(n) == n % 2 = 1

CairoClassOf(n) == << "cairo", n >>

SierraClassOf(n) == << "sierra", n >>

CasmHashOf(n) == << "casm_hash", n >>

DeclaredCairo(n) == IF n % 2 = 1 THEN << CairoClassOf(n) >> ELSE << >>

DeclaredSierra(n) == IF n >= 2 THEN << << SierraClassOf(n), CasmHashOf(n) >> >> ELSE << >>

TxCount(n) == n % 3

EventCount(n, j) == (n + j + 1) % 3

TxHashOf(n, j) == << "tx_hash", n, j >>

StoredTxn(n, j) == [hash |-> TxHashOf(n, j)]

StoredReceipt(n, j) ==
    [transaction_hash |-> TxHashOf(n, j),
     events |-> [k \in 1 .. EventCount(n, j) |-> << "event", n, j, k >>]]

block_header(tx, n) ==
    IF Hit(tx, "err_block_header", n) THEN Err
    ELSE IF n \in tx.stored THEN Ok(Some([number |-> n, hash |-> BlockHashOf(n)]))
    ELSE Ok(None)

signature(tx, n) ==
    IF Hit(tx, "err_signature", n) THEN Err
    ELSE IF n \in tx.stored /\ HasSignature(n)
         THEN Ok(Some([r |-> << "r", n >>, s |-> << "s", n >>]))
    ELSE Ok(None)

\* block_id by number: (number, hash) of a stored block.
block_id(tx, n) ==
    IF Hit(tx, "err_block_id", n) THEN Err
    ELSE IF n \in tx.stored THEN Ok(Some(<< n, BlockHashOf(n) >>))
    ELSE Ok(None)

\* block_id by hash.
block_id_by_hash(tx, h) ==
    IF Hit(tx, "err_block_id", h[2]) THEN Err
    ELSE IF h[2] \in tx.stored THEN Ok(Some(<< h[2], h >>))
    ELSE Ok(None)

state_update(tx, n) ==
    IF Hit(tx, "err_state_update", n) THEN Err
    ELSE IF n \in tx.stored /\ ~Hit(tx, "no_state_update", n)
         THEN Ok(Some([block_hash |-> BlockHashOf(n),
                       declared_cairo_classes |-> DeclaredCairo(n),
                       declared_sierra_classes |-> DeclaredSierra(n)]))
    ELSE Ok(None)

transaction_data_for_block(tx, n) ==
    IF Hit(tx, "err_transaction_data", n) THEN Err
    ELSE IF n \in tx.stored /\ ~Hit(tx, "no_transaction_data", n)
         THEN Ok(Some([j \in 1 .. TxCount(n) |-> << StoredTxn(n, j), StoredReceipt(n, j) >>]))
    ELSE Ok(None)

\* A class hash is << "cairo" | "sierra", declaring block >>.
class_definition_at(tx, n, class_hash) ==
    IF Hit(tx, "err_class_definition_at", class_hash[2]) THEN Err
    ELSE IF class_hash[2] \in tx.stored /\ class_hash[2] <= n
            /\ ~Hit(tx, "class_missing", class_hash[2])
         THEN Ok(Some([json |-> IF Hit(tx, "bad_json", class_hash[2])
                                THEN "garbage" ELSE class_hash[1],
                       of |-> class_hash]))
    ELSE Ok(None)

casm_definition(tx, class_hash) ==
    IF Hit(tx, "err_casm_definition", class_hash[2]) THEN Err
    ELSE IF \/ class_hash[1] = "sierra" /\ ~Hit(tx, "sierra_without_casm", class_hash[2])
            \/ class_hash[1] = "cairo" /\ Hit(tx, "cairo_with_casm", class_hash[2])
         THEN Ok(Some([casm_of |-> class_hash]))
    ELSE Ok(None)

(***************************************************************************)
(* Response frames.  A headers response part is Header, Signatures or Fin  *)
(* (a bare Fin, the part has no block id); every other response is a       *)
(* record with an optional BlockId and a message.                          *)
(***************************************************************************)
HeaderPart(header) ==
    [type |-> "Header", header |-> [number |-> header.number, hash |-> header.hash]]

SignaturesPart(block, sig) ==
    [type |-> "Signatures", block |-> block, signatures |-> << [r |-> sig.r, s |-> sig.s] >>]

FinPart(fin) == [type |-> "Fin", fin |-> fin]

Response(id, type, payload) == [type |-> type, id |-> id, payload |-> payload]

FinResponse(id, fin) == [type |-> "Fin", id |-> id, fin |-> fin]

\* T::from(Fin): the Fin frame of the response type of `kind`, without block id.
FromFin(kind, fin) == IF kind = "headers" THEN FinPart(fin) ELSE FinResponse(None, fin)

\* What a block handler hands back: Ok(true), Ok(false) or Err, and the buffer.
Handled(ret, out) == [ret |-> ret, out |-> out]

(***************************************************************************)
(* get_header                                                              *)
(***************************************************************************)
\* Mutant: the Signatures part is pushed before the Header part.
get_header_signatures_first(tx, block_number, parts) ==
    LET h == block_header(tx, block_number) IN
    IF ~h.ok THEN Handled("err", parts)
    ELSE IF h.v = None THEN Handled("false", parts)
    ELSE
      LET header == h.v[1]
          s == signature(tx, block_number)
      IN IF ~s.ok THEN Handled("err", Append(parts, HeaderPart(header)))
         ELSE LET withSig ==
                    IF s.v # None
                    THEN << SignaturesPart(BlockId(block_number, header.hash), s.v[1]),
                            HeaderPart(header) >>
                    ELSE << HeaderPart(header) >>
              IN Handled("true", Append(parts \o withSig, FinPart(FinOk)))

get_header(tx, block_number, parts) ==
    LET h == block_header(tx, block_number) IN
    IF ~h.ok THEN Handled("err", parts)
    ELSE IF h.v = None THEN Handled("false", parts)
    ELSE
      LET header == h.v[1]
          withHeader == Append(parts, HeaderPart(header))
          s == signature(tx, block_number)
      IN IF ~s.ok THEN Handled("err", withHeader)
         ELSE LET withSig ==
                    IF s.v # None
                    THEN Append(withHeader,
                                SignaturesPart(BlockId(block_number, header.hash), s.v[1]))
                    ELSE withHeader
              IN Handled("true", Append(withSig, FinPart(FinOk)))

(***************************************************************************)
(* get_body and classes                                                    *)
(***************************************************************************)
ClassId_Cairo(class_hash) == [tag |-> "Cairo", hash |-> class_hash, casm_hash |-> None]

ClassId_Sierra(sierra_hash, casm_hash) ==
    [tag |-> "Sierra", hash |-> sierra_hash, casm_hash |-> Some(casm_hash)]

\* ClassId::class_hash: the Cairo hash, or the Sierra hash of a Sierra id.
class_hash_of(class_id) == class_id.hash

\* The closure get_definition of get_body.
get_definition(tx, block_number, class_hash) ==
    LET d == class_definition_at(tx, block_number, class_hash) IN
    IF ~d.ok \/ d.v = None THEN Err
    ELSE LET c == casm_definition(tx, class_hash) IN
         IF ~c.ok THEN Err
         ELSE IF c.v # None
              THEN Ok([tag |-> "Sierra", definition |-> d.v[1], casm |-> c.v])
              ELSE Ok([tag |-> "Cairo", definition |-> d.v[1], casm |-> None])

\* serde_json::from_slice::<de::Cairo> / <de::Sierra> (deny_unknown_fields):
\* the stored bytes parse only as the kind of definition they hold.
from_slice(shape, definition) == definition.json = shape

\* One pass of the loop of `classes`: the Class of one id, or an error.
\* Mutant: a definition of the other kind is taken as a Cairo class.
class_of_unchecked(tx, block_number, class_id) ==
    LET def == get_definition(tx, block_number, class_hash_of(class_id)) IN
    IF ~def.ok THEN Err
    ELSE IF class_id.tag = "Cairo" /\ def.v.tag = "Cairo"
         THEN IF from_slice("cairo", def.v.definition)
              THEN Ok([class |-> "Cairo0", of |-> def.v.definition.of, compiled |-> None])
              ELSE Err
    ELSE IF class_id.tag = "Sierra" /\ def.v.tag = "Sierra"
         THEN IF from_slice("sierra", def.v.definition)
              THEN Ok([class |-> "Cairo1", of |-> def.v.definition.of,
                       compiled |-> def.v.casm])
              ELSE Err
    ELSE Ok([class |-> "Cairo0", of |-> def.v.definition.of, compiled |-> None])

class_of(tx, block_number, class_id) ==
    LET def == get_definition(tx, block_number, class_hash_of(class_id)) IN
    IF ~def.ok THEN Err
    ELSE IF class_id.tag = "Cairo" /\ def.v.tag = "Cairo"
         THEN IF from_slice("cairo", def.v.definition)
              THEN Ok([class |-> "Cairo0", of |-> def.v.definition.of, compiled |-> None])
              ELSE Err
    ELSE IF class_id.tag = "Sierra" /\ def.v.tag = "Sierra"
         THEN IF from_slice("sierra", def.v.definition)
              THEN Ok([class |-> "Cairo1", of |-> def.v.definition.of,
                       compiled |-> def.v.casm])
              ELSE Err
    ELSE Err

RECURSIVE class_list(_, _, _)
class_list(tx, block_number, new_class_ids) ==
    IF new_class_ids = << >> THEN Ok(<< >>)
    ELSE LET c == class_of(tx, block_number, Head(new_class_ids)) IN
         IF ~c.ok THEN Err
         ELSE LET rest == class_list(tx, block_number, Tail(new_class_ids)) IN
              IF ~rest.ok THEN Err ELSE Ok(<< c.v >> \o rest.v)

\* Mutant: no Classes frame is pushed when no class was declared.
classes_unless_empty(tx, block_number, block_hash, new_class_ids, responses) ==
    LET cs == class_list(tx, block_number, new_class_ids) IN
    IF ~cs.ok THEN Err
    ELSE IF cs.v = << >> THEN Ok(responses)
    ELSE Ok(Append(responses,
                   Response(Some(BlockId(block_number, block_hash)), "Classes",
                            [domain |-> 0, classes |-> cs.v])))

classes(tx, block_number, block_hash, new_class_ids, responses) ==
    LET cs == class_list(tx, block_number, new_class_ids) IN
    IF ~cs.ok THEN Err
    ELSE Ok(Append(responses,
                   Response(Some(BlockId(block_number, block_hash)), "Classes",
                            [domain |-> 0, classes |-> cs.v])))

get_body(tx, block_number, responses) ==
    LET su == state_update(tx, block_number) IN
    IF ~su.ok THEN Handled("err", responses)
    ELSE IF su.v = None THEN Handled("false", responses)
    ELSE
      LET state_diff == su.v[1]
          cairo == state_diff.declared_cairo_classes
          sierra == state_diff.declared_sierra_classes
          new_classes ==
              [k \in 1 .. Len(cairo) |-> ClassId_Cairo(cairo[k])]
              \o [k \in 1 .. Len(sierra) |-> ClassId_Sierra(sierra[k][1], sierra[k][2])]
          id == Some(BlockId(block_number, state_diff.block_hash))
          withDiff ==
              Append(responses,
                     Response(id, "Diff",
                              [declared_cairo |-> cairo, declared_sierra |-> sierra]))
          withClasses ==
              classes(tx, block_number, state_diff.block_hash, new_classes, withDiff)
      IN IF ~withClasses.ok THEN Handled("err", withDiff)
         ELSE Handled("true", Append(withClasses.v, FinResponse(id, FinOk)))

(***************************************************************************)
(* get_transactions_for_block, get_receipts_for_block, get_events_for_block*)
(***************************************************************************)
\* to_proto of a stored transaction / of a (transaction, receipt) pair / of a
\* (transaction hash, event) pair.
txn_to_proto(txn) == [transaction |-> txn.hash]

receipt_to_proto(pair) ==
    [receipt_of |-> pair[2].transaction_hash, transaction |-> pair[1].hash]

event_to_proto(transaction_hash, event) ==
    [transaction_hash |-> transaction_hash, event |-> event]

\* flat_map over the receipts: each receipt's events, in order, paired with
\* the receipt's transaction hash.
\* Mutant: the receipts are gone through from the last to the first.
RECURSIVE flat_events_backwards(_)
flat_events_backwards(txn_data) ==
    IF txn_data = << >> THEN << >>
    ELSE LET r == Head(txn_data)[2] IN
         flat_events_backwards(Tail(txn_data))
         \o [k \in 1 .. Len(r.events) |-> event_to_proto(r.transaction_hash, r.events[k])]

RECURSIVE flat_events(_)
flat_events(txn_data) ==
    IF txn_data = << >> THEN << >>
    ELSE LET r == Head(txn_data)[2] IN
         [k \in 1 .. Len(r.events) |-> event_to_proto(r.transaction_hash, r.events[k])]
         \o flat_events(Tail(txn_data))

\* Mutant: the block's closing Fin::ok() is not pushed.
get_transactions_for_block_unsealed(tx, block_number, responses) ==
    LET b == block_id(tx, block_number) IN
    IF ~b.ok THEN Handled("err", responses)
    ELSE IF b.v = None THEN Handled("false", responses)
    ELSE LET d == transaction_data_for_block(tx, block_number) IN
         IF ~d.ok THEN Handled("err", responses)
         ELSE IF d.v = None THEN Handled("false", responses)
         ELSE LET txn_data == d.v[1]
                  id == Some(BlockId(block_number, b.v[1][2]))
                  items == [k \in 1 .. Len(txn_data) |-> txn_to_proto(txn_data[k][1])]
              IN Handled("true",
                         Append(responses, Response(id, "Transactions", [items |-> items])))

\* Mutant: the items are listed from the last transaction to the first.
get_transactions_for_block_reversed(tx, block_number, responses) ==
    LET b == block_id(tx, block_number) IN
    IF ~b.ok THEN Handled("err", responses)
    ELSE IF b.v = None THEN Handled("false", responses)
    ELSE LET d == transaction_data_for_block(tx, block_number) IN
         IF ~d.ok THEN Handled("err", responses)
         ELSE IF d.v = None THEN Handled("false", responses)
         ELSE LET txn_data == d.v[1]
                  id == Some(BlockId(block_number, b.v[1][2]))
                  items == [k \in 1 .. Len(txn_data) |->
                              txn_to_proto(txn_data[Len(txn_data) + 1 - k][1])]
              IN Handled("true",
                         responses \o << Response(id, "Transactions", [items |-> items]),
                                         FinResponse(id, FinOk) >>)

get_transactions_for_block(tx, block_number, responses) ==
    LET b == block_id(tx, block_number) IN
    IF ~b.ok THEN Handled("err", responses)
    ELSE IF b.v = None THEN Handled("false", responses)
    ELSE LET d == transaction_data_for_block(tx, block_number) IN
         IF ~d.ok THEN Handled("err", responses)
         ELSE IF d.v = None THEN Handled("false", responses)
         ELSE LET txn_data == d.v[1]
                  id == Some(BlockId(block_number, b.v[1][2]))
                  items == [k \in 1 .. Len(txn_data) |-> txn_to_proto(txn_data[k][1])]
              IN Handled("true",
                         responses \o << Response(id, "Transactions", [items |-> items]),
                                         FinResponse(id, FinOk) >>)

\* Mutant: missing transaction data is reported as a served block.
get_receipts_for_block_no_data(tx, block_number, responses) ==
    LET b == block_id(tx, block_number) IN
    IF ~b.ok THEN Handled("err", responses)
    ELSE IF b.v = None THEN Handled("false", responses)
    ELSE LET d == transaction_data_for_block(tx, block_number) IN
         IF ~d.ok THEN Handled("err", responses)
         ELSE IF d.v = None THEN Handled("true", responses)
         ELSE LET txn_data == d.v[1]
                  id == Some(BlockId(block_number, b.v[1][2]))
                  items == [k \in 1 .. Len(txn_data) |-> receipt_to_proto(txn_data[k])]
              IN Handled("true",
                         responses \o << Response(id, "Receipts", [items |-> items]),
                                         FinResponse(id, FinOk) >>)

get_receipts_for_block(tx, block_number, responses) ==
    LET b == block_id(tx, block_number) IN
    IF ~b.ok THEN Handled("err", responses)
    ELSE IF b.v = None THEN Handled("false", responses)
    ELSE LET d == transaction_data_for_block(tx, block_number) IN
         IF ~d.ok THEN Handled("err", responses)
         ELSE IF d.v = None THEN Handled("false", responses)
         ELSE LET txn_data == d.v[1]
                  id == Some(BlockId(block_number, b.v[1][2]))
                  items == [k \in 1 .. Len(txn_data) |-> receipt_to_proto(txn_data[k])]
              IN Handled("true",
                         responses \o << Response(id, "Receipts", [items |-> items]),
                                         FinResponse(id, FinOk) >>)

get_events_for_block(tx, block_number, responses) ==
    LET b == block_id(tx, block_number) IN
    IF ~b.ok THEN Handled("err", responses)
    ELSE IF b.v = None THEN Handled("false", responses)
    ELSE LET d == transaction_data_for_block(tx, block_number) IN
         IF ~d.ok THEN Handled("err", responses)
         ELSE IF d.v = None THEN Handled("false", responses)
         ELSE LET id == Some(BlockId(block_number, b.v[1][2]))
                  items == flat_events(d.v[1])
              IN Handled("true",
                         responses \o << Response(id, "Events", [items |-> items]),
                                         FinResponse(id, FinOk) >>)

\* The block handler each blocking::get_* passes to iterate.
block_handler(kind, tx, block_number, responses) ==
    CASE kind = "headers" -> get_header(tx, block_number, responses)
      [] kind = "bodies" -> get_body(tx, block_number, responses)
      [] kind = "transactions" -> get_transactions_for_block(tx, block_number, responses)
      [] kind = "receipts" -> get_receipts_for_block(tx, block_number, responses)
      [] kind = "events" -> get_events_for_block(tx, block_number, responses)

(***************************************************************************)
(* get_start_block_number and get_next_block_number                        *)
(***************************************************************************)
get_start_block_number(start, tx) ==
    IF start[1] = "Number" THEN Ok(BlockNumber_new(start[2]))
    ELSE LET b == block_id_by_hash(tx, start[2]) IN
         IF ~b.ok THEN Err
         ELSE IF b.v = None THEN Ok(None) ELSE Ok(Some(b.v[1][1]))

checked_add(a, b) == IF a + b > U64_MAX THEN None ELSE Some(a + b)

checked_sub(a, b) == IF a < b THEN None ELSE Some(a - b)

\* Mutant: the direction is ignored, the walk always goes forward.
get_next_block_number_forward(current, step, direction) ==
    LET n == checked_add(current, step)
    IN IF n = None THEN None ELSE BlockNumber_new(n[1])

\* Mutant: saturating instead of checked arithmetic.
get_next_block_number_saturating(current, step, direction) ==
    IF direction = "Forward"
    THEN BlockNumber_new(IF current + step > U64_MAX THEN U64_MAX ELSE current + step)
    ELSE BlockNumber_new(IF current < step THEN 0 ELSE current - step)

\* Mutant: wrapping instead of checked arithmetic.
get_next_block_number_wrapping(current, step, direction) ==
    IF direction = "Forward"
    THEN BlockNumber_new((current + step) % (U64_MAX + 1))
    ELSE BlockNumber_new((current + U64_MAX + 1 - step) % (U64_MAX + 1))

get_next_block_number(current, step, direction) ==
    LET n == IF direction = "Forward" THEN checked_add(current, step)
             ELSE checked_sub(current, step)
    IN IF n = None THEN None ELSE BlockNumber_new(n[1])

(***************************************************************************)
(* The pieces of iterate                                                   *)
(***************************************************************************)
\* Line 369: the whole response to a request with limit = 0.
\* Mutant: an empty request is answered by an empty response.
limit_zero_response_empty(kind) == << >>

limit_zero_response(kind) == << FromFin(kind, FinOk) >>

\* Line 375: the whole response to a request whose start does not resolve.
\* Mutant: an unresolved start is answered like an empty request.
start_unknown_response_ok(kind) == << FromFin(kind, FinOk) >>

start_unknown_response(kind) == << FromFin(kind, FinUnknown) >>

\* Lines 379-383: the clamped limit and the pending ending marker.
\* Mutant: truncation is announced but the limit is not clamped.
clamp_limit_unclamped(requested) ==
    IF requested > MAX_BLOCKS_COUNT
    THEN << requested, Some(FinTooMuch) >>
    ELSE << requested, None >>

\* Mutant: a request for exactly the ceiling counts as truncated.
clamp_limit_inclusive(requested) ==
    IF requested >= MAX_BLOCKS_COUNT
    THEN << MAX_BLOCKS_COUNT, Some(FinTooMuch) >>
    ELSE << requested, None >>

clamp_limit(requested) ==
    IF requested > MAX_BLOCKS_COUNT
    THEN << MAX_BLOCKS_COUNT, Some(FinTooMuch) >>
    ELSE << requested, None >>

\* Line 396: a next block number is computed on every pass but the last.
\* Mutant: a next block number is computed after the last pass too.
has_next_pass_always(pass, clamped) == pass < clamped

has_next_pass(pass, clamped) == pass < clamped - 1

\* Lines 408-410: the ending marker, if one is pending, closes the response.
\* Mutant: a response without pending marker is closed by Fin::ok().
push_ending_marker_ok(kind, out, marker) ==
    IF marker # None THEN Append(out, FromFin(kind, marker[1]))
    ELSE Append(out, FromFin(kind, FinOk))

\* Mutant: a response without pending marker is closed by Fin::unknown().
push_ending_marker_unknown(kind, out, marker) ==
    IF marker # None THEN Append(out, FromFin(kind, marker[1]))
    ELSE Append(out, FromFin(kind, FinUnknown))

push_ending_marker(kind, out, marker) ==
    IF marker # None THEN Append(out, FromFin(kind, marker[1])) ELSE out

\* Lines 391-394: the ending marker after the block handler returned false.
\* Mutant: a pending Fin::too_much() is kept when a block is missing.
missing_block_marker_kept(pending) == IF pending # None THEN pending ELSE Some(FinUnknown)

missing_block_marker(pending) == Some(FinUnknown)

(***************************************************************************)
(* State: the request being served, the storage snapshot it reads, and     *)
(* the locals of iterate.  `visited` and `last_call` record the calls of   *)
(* the block handler: the block numbers it was called with, and the        *)
(* buffer before and after the latest call with what the call returned.    *)
(***************************************************************************)
VARIABLES tx, request, pc, block_number, limit, i, ending_marker, responses,
          result, visited, last_call

\* Variable groups: each part of the program keeps its own state, and a step
\* of one part leaves the state of the others alone.

\* The response channel of one stream: the frames handed to `send`, how many
\* of them it has sent, the frames in the channel, the frames the channel
\* accepted and the frames the receiver took, in order.
VARIABLES send_seq, send_pos, channel, accepted, received, receiver,
          send_result

\* The database as other threads of the node leave it while a request is
\* served, and the number of writes they committed meanwhile.
VARIABLES database, commits

\* The re-execution pool: the database, the block range, the position of the
\* main thread and of its loop, the work channel, the block numbers sent on
\* it so far, the executors joined so far, each executor's position and work
\* item, the tracing output, and how often each block was received and
\* estimated.
VARIABLES db, first_block, last_block, main, next_block, work_channel, sent,
          joined, executors, log, received_count, estimate_count

\* One pass of the comparison loop of an executor: the estimate, the fee of
\* the receipt, the gas price of the header, whether the build checks
\* arithmetic overflow, and what the pass did.
VARIABLES estimate_gas_consumed, receipt_actual_fee, header_gas_price,
          build_overflow_checks, comparison

\* A hash chain and its use: the values to hash, the chain, how many values
\* it was updated with, by which call the result was made, and the result.
VARIABLES chain_input, hash_chain, chain_fed, chain_call, chain_result

\* A substream upgrade: the protocols of the Protocol value, the substream,
\* the negotiated protocol, which upgrade was called and the future it
\* returned.
VARIABLES protocols, io, protocol, upgrade_called, upgrade_future

\* Concurrent trace_block_transactions calls on one context: how the gateway
\* answers, what the pending block is like, the shared trace cache, each call's
\* block id, position, way of getting its traces and output, and how often
\* each block was traced.
VARIABLES gateway, pending_data, trace_cache, calls, executions

iterate_vars == << tx, request, pc, block_number, limit, i, ending_marker,
    responses, result, visited, last_call >>
send_vars == << send_seq, send_pos, channel, accepted, received, receiver,
    send_result >>
serve_vars == << database, commits >>
pool_vars == << db, first_block, last_block, main, next_block, work_channel,
    sent, joined, executors, log, received_count, estimate_count >>
gas_vars == << estimate_gas_consumed, receipt_actual_fee, header_gas_price,
    build_overflow_checks, comparison >>
chain_vars == << chain_input, hash_chain, chain_fed, chain_call, chain_result >>
upgrade_vars == << protocols, io, protocol, upgrade_called, upgrade_future >>
trace_vars == << gateway, pending_data, trace_cache, calls, executions >>

vars == << iterate_vars, send_vars, serve_vars, pool_vars, gas_vars,
    chain_vars, upgrade_vars, trace_vars >>

not_iterate == << send_vars, serve_vars, pool_vars, gas_vars, chain_vars,
    upgrade_vars, trace_vars >>
not_send == << iterate_vars, serve_vars, pool_vars, gas_vars, chain_vars,
    upgrade_vars, trace_vars >>
not_serve == << iterate_vars, send_vars, pool_vars, gas_vars, chain_vars,
    upgrade_vars, trace_vars >>
not_pool == << iterate_vars, send_vars, serve_vars, gas_vars, chain_vars,
    upgrade_vars, trace_vars >>
not_gas == << iterate_vars, send_vars, serve_vars, pool_vars, chain_vars,
    upgrade_vars, trace_vars >>
not_chain == << iterate_vars, send_vars, serve_vars, pool_vars, gas_vars,
    upgrade_vars, trace_vars >>
not_upgrade == << iterate_vars, send_vars, serve_vars, pool_vars, gas_vars,
    chain_vars, trace_vars >>
not_trace == << iterate_vars, send_vars, serve_vars, pool_vars, gas_vars,
    chain_vars, upgrade_vars >>

\* The state of a part that is not running.
iterate_idle ==
    /\ tx = [stored |-> {}, anomaly |-> NoAnomaly]
    /\ request = [kind |-> "headers", start |-> Number(0), direction |-> "Forward", limit |-> 0, step |-> 1]
    /\ pc = "idle"
    /\ block_number = 0
    /\ limit = 0
    /\ i = 0
    /\ ending_marker = None
    /\ responses = << >>
    /\ result = "idle"
    /\ visited = << >>
    /\ last_call = None
send_idle ==
    /\ send_seq = << >>
    /\ send_pos = 0
    /\ channel = << >>
    /\ accepted = << >>
    /\ received = << >>
    /\ receiver = "idle"
    /\ send_result = "idle"
serve_idle ==
    /\ database = [stored |-> {}, anomaly |-> NoAnomaly]
    /\ commits = 0
pool_idle ==
    /\ db = [stored |-> {}, anomaly |-> NoAnomaly]
    /\ first_block = 0
    /\ last_block = 0
    /\ main = "idle"
    /\ next_block = 0
    /\ work_channel = << >>
    /\ sent = << >>
    /\ joined = 0
    /\ executors = << >>
    /\ log = {}
    /\ received_count = << >>
    /\ estimate_count = << >>
gas_idle ==
    /\ estimate_gas_consumed = 0
    /\ receipt_actual_fee = None
    /\ header_gas_price = 0
    /\ build_overflow_checks = FALSE
    /\ comparison = "idle"
chain_idle ==
    /\ chain_input = << >>
    /\ hash_chain = [hash |-> << 0 >>, count |-> 0]
    /\ chain_fed = 0
    /\ chain_call = "idle"
    /\ chain_result = None
upgrade_idle ==
    /\ protocols = << >>
    /\ io = 0
    /\ protocol = ""
    /\ upgrade_called = "idle"
    /\ upgrade_future = None
trace_idle ==
    /\ gateway = "idle"
    /\ pending_data = "idle"
    /\ trace_cache = << >>
    /\ calls = << >>
    /\ executions = << >>

not_iterate_idle == send_idle /\ serve_idle /\ pool_idle /\ gas_idle /\ chain_idle /\ upgrade_idle /\ trace_idle
not_send_idle == iterate_idle /\ serve_idle /\ pool_idle /\ gas_idle /\ chain_idle /\ upgrade_idle /\ trace_idle
not_serve_idle == iterate_idle /\ send_idle /\ pool_idle /\ gas_idle /\ chain_idle /\ upgrade_idle /\ trace_idle
not_pool_idle == iterate_idle /\ send_idle /\ serve_idle /\ gas_idle /\ chain_idle /\ upgrade_idle /\ trace_idle
not_gas_idle == iterate_idle /\ send_idle /\ serve_idle /\ pool_idle /\ chain_idle /\ upgrade_idle /\ trace_idle
not_chain_idle == iterate_idle /\ send_idle /\ serve_idle /\ pool_idle /\ gas_idle /\ upgrade_idle /\ trace_idle
not_upgrade_idle == iterate_idle /\ send_idle /\ serve_idle /\ pool_idle /\ gas_idle /\ chain_idle /\ trace_idle
not_trace_idle == iterate_idle /\ send_idle /\ serve_idle /\ pool_idle /\ gas_idle /\ chain_idle /\ upgrade_idle
\* End of the variable groups.

Requests == [kind : Kinds, start : Starts, direction : Directions,
             limit : 0 .. MaxLimit, step : Steps]

\* Requests served from a snapshot with an anomaly: well-formed unit-step
\* walks of one block, of the ceiling, and of more than the ceiling.
AnomalyRequests == {r \in Requests : r.step = 1 /\ r.limit \in {1, MAX_BLOCKS_COUNT, MaxLimit}}

\* Stored blocks 0 .. head - 1.
Prefix(head) == {n \in Blocks : n < head}

Locals ==
    /\ pc = "decode"
    /\ block_number = 0
    /\ limit = 0
    /\ i = 0
    /\ ending_marker = None
    /\ responses = << >>
    /\ result = "pending"
    /\ visited = << >>
    /\ last_call = None

\* Every request against every set of stored blocks, all queries succeeding.
InitSound ==
    /\ request \in Requests
    /\ tx \in [stored : SUBSET Blocks, anomaly : {NoAnomaly}]
    /\ Locals

\* One anomaly at a stored block of a gapless chain; only the anomalies
\* the request's handler can observe are drawn.
InitAnomaly ==
    /\ request \in AnomalyRequests
    /\ \E head \in 1 .. BLOCK_NUMBER_MAX + 1 :
         \E at \in Prefix(head) :
           \E what \in QueryFaults(request.kind) \cup DataAnomalies(request.kind) :
             tx = [stored |-> Prefix(head), anomaly |-> [what |-> what, at |-> at]]
    /\ Locals

Init == (InitSound \/ InitAnomaly) /\ not_iterate_idle

\* Decoding of the Iteration: a zero step is rejected, nothing is served.
Decode ==
    /\ pc = "decode"
    /\ IF Step_decode(request.step) = None
       THEN pc' = "done" /\ result' = "rejected"
       ELSE pc' = "check_limit" /\ result' = result
    /\ UNCHANGED << tx, request, block_number, limit, i, ending_marker, responses,
                    visited, last_call >>
    /\ UNCHANGED not_iterate

\* iterate, lines 368-370.
CheckLimit ==
    /\ pc = "check_limit"
    /\ IF request.limit = 0
       THEN /\ responses' = limit_zero_response(request.kind)
            /\ result' = "ok"
            /\ pc' = "done"
       ELSE /\ pc' = "resolve"
            /\ UNCHANGED << responses, result >>
    /\ UNCHANGED << tx, request, block_number, limit, i, ending_marker, visited, last_call >>
    /\ UNCHANGED not_iterate

\* iterate, lines 372-377.
ResolveStart ==
    /\ pc = "resolve"
    /\ LET start == get_start_block_number(request.start, tx) IN
       IF ~start.ok
       THEN /\ result' = "err"
            /\ pc' = "done"
            /\ UNCHANGED << block_number, responses >>
       ELSE IF start.v = None
       THEN /\ responses' = start_unknown_response(request.kind)
            /\ result' = "ok"
            /\ pc' = "done"
            /\ UNCHANGED block_number
       ELSE /\ block_number' = start.v[1]
            /\ pc' = "clamp"
            /\ UNCHANGED << responses, result >>
    /\ UNCHANGED << tx, request, limit, i, ending_marker, visited, last_call >>
    /\ UNCHANGED not_iterate

\* iterate, lines 379-385.
ClampLimit ==
    /\ pc = "clamp"
    /\ limit' = clamp_limit(request.limit)[1]
    /\ ending_marker' = clamp_limit(request.limit)[2]
    /\ responses' = << >>
    /\ i' = 0
    /\ pc' = "loop"
    /\ UNCHANGED << tx, request, block_number, result, visited, last_call >>
    /\ UNCHANGED not_iterate

\* iterate, lines 387-394: one call of the block handler.
HandleBlock ==
    /\ pc = "loop"
    /\ i < limit
    /\ LET h == block_handler(request.kind, tx, block_number, responses) IN
       /\ visited' = Append(visited, block_number)
       /\ last_call' = Some([block_number |-> block_number, before |-> responses,
                             ret |-> h.ret, after |-> h.out])
       /\ CASE h.ret = "err" ->
                 /\ responses' = << >>
                 /\ result' = "err"
                 /\ pc' = "done"
                 /\ UNCHANGED ending_marker
            [] h.ret = "true" ->
                 /\ responses' = h.out
                 /\ pc' = "next"
                 /\ UNCHANGED << result, ending_marker >>
            [] h.ret = "false" ->
                 /\ responses' = h.out
                 /\ ending_marker' = missing_block_marker(ending_marker)
                 /\ pc' = "finish"
                 /\ UNCHANGED result
    /\ UNCHANGED << tx, request, block_number, limit, i >>
    /\ UNCHANGED not_iterate

\* iterate, lines 396-406: the next block number, unless this was the last pass.
NextBlock ==
    /\ pc = "next"
    /\ IF has_next_pass(i, limit)
       THEN LET next == get_next_block_number(block_number, request.step, request.direction) IN
            IF next = None
            THEN /\ ending_marker' = Some(FinUnknown)
                 /\ pc' = "finish"
                 /\ UNCHANGED << block_number, i >>
            ELSE /\ block_number' = next[1]
                 /\ i' = i + 1
                 /\ pc' = "loop"
                 /\ UNCHANGED ending_marker
       ELSE /\ i' = i + 1
            /\ pc' = "finish"
            /\ UNCHANGED << block_number, ending_marker >>
    /\ UNCHANGED << tx, request, limit, responses, result, visited, last_call >>
    /\ UNCHANGED not_iterate

\* iterate, lines 408-412.
Finish ==
    /\ pc = "finish"
    /\ responses' = push_ending_marker(request.kind, responses, ending_marker)
    /\ result' = "ok"
    /\ pc' = "done"
    /\ UNCHANGED << tx, request, block_number, limit, i, ending_marker, visited, last_call >>
    /\ UNCHANGED not_iterate

Next == Decode \/ CheckLimit \/ ResolveStart \/ ClampLimit \/ HandleBlock \/ NextBlock \/ Finish

Spec == Init /\ [][Next]_vars

(***************************************************************************)
(* Vocabulary of the properties.  It reads the request, the stored data    *)
(* and the frames only; none of it uses an operator of the handlers.       *)
(***************************************************************************)
\* iterate returned Ok(responses).
Responded == pc = "done" /\ result = "ok"

IsFin(f) == f.type = "Fin"

IsPayload(f) == f.type # "Fin"

IsFinOf(f, fin) == IsFin(f) /\ f.fin = fin

\* The block a payload frame pertains to.
FrameBlock(f) ==
    CASE f.type = "Header" -> f.header.number
      [] f.type = "Signatures" -> f.block.number
      [] OTHER -> f.id[1].number

\* The positions of the Fin::ok() frames that seal a group of payload frames.
GroupEnds(resp) == {k \in 2 .. Len(resp) : IsFinOf(resp[k], FinOk) /\ IsPayload(resp[k - 1])}

PayloadGroups(resp) == Cardinality(GroupEnds(resp))

\* The frames after the last sealed group: what iterate itself appended.
LastGroupEnd(resp) ==
    IF GroupEnds(resp) = {} THEN 0
    ELSE CHOOSE k \in GroupEnds(resp) : \A e \in GroupEnds(resp) : e <= k

Terminals(resp) == SubSeq(resp, LastGroupEnd(resp) + 1, Len(resp))

LastFrame(resp) == resp[Len(resp)]

\* The block number the start designates, if any: a number within the
\* BlockNumber range, or the number of the stored block with that hash.
StartUnresolvable ==
    \/ request.start[1] = "Number" /\ request.start[2] > BLOCK_NUMBER_MAX
    \/ request.start[1] = "Hash" /\ ~(\E n \in tx.stored : BlockHashOf(n) = request.start[2])

StartNumber ==
    IF request.start[1] = "Number" THEN request.start[2]
    ELSE CHOOSE n \in Blocks : BlockHashOf(n) = request.start[2]

\* The k-th block number of the walk (k = 0, 1, ...), in unbounded integers.
Walk(k) ==
    IF request.direction = "Forward" THEN StartNumber + k * request.step
    ELSE StartNumber - k * request.step

\* Block n holds the data the request's kind asks for.
Existing(n) ==
    /\ n \in tx.stored
    /\ ~(tx.anomaly.what \in {"no_state_update", "no_transaction_data"} /\ tx.anomaly.at = n)

\* The number of consecutive existing blocks at the head of the walk, counted up to `most`.
Reachable(most) ==
    CHOOSE k \in 0 .. most :
      /\ \A j \in 0 .. k - 1 : Existing(Walk(j))
      /\ k < most => ~Existing(Walk(k))

Min(a, b) == IF a <= b THEN a ELSE b

(***************************************************************************)
(* C1.  A request with limit = 0 -- whatever its start, resolvable or not, *)
(* its direction and its step -- is answered by exactly one frame,         *)
(* Fin::ok(), and the block handler is never called.                       *)
(***************************************************************************)
C1_EmptyRequest ==
    (pc = "done" /\ result # "rejected" /\ request.limit = 0)
        => /\ result = "ok"
           /\ responses = << FromFin(request.kind, FinOk) >>
           /\ visited = << >>
           /\ last_call = None

\* An empty request whose start does not resolve has been answered.
C1_Witness ==
    /\ Responded
    /\ request.limit = 0
    /\ StartUnresolvable
    /\ Len(responses) = 1

(***************************************************************************)
(* C2.  As claimed: every request whose start cannot be resolved is        *)
(* answered by exactly [Fin::unknown()].  This fails for limit = 0, which  *)
(* is answered by [Fin::ok()] before the start is looked at.               *)
(***************************************************************************)
C2_Original ==
    (pc = "done" /\ result # "rejected" /\ StartUnresolvable)
        => /\ result = "ok"
           /\ responses = << FromFin(request.kind, FinUnknown) >>

(***************************************************************************)
(* C2, amended.  A request with limit >= 1 whose start cannot be resolved  *)
(* is answered by exactly [Fin::unknown()], and no block is visited.       *)
(***************************************************************************)
C2_StartNotFound ==
    (pc = "done" /\ result # "rejected" /\ StartUnresolvable /\ request.limit >= 1)
        => /\ result = "ok"
           /\ responses = << FromFin(request.kind, FinUnknown) >>
           /\ visited = << >>

\* A request for at least one block by a hash no stored block has, answered
\* from a non-empty database.
C2_Witness ==
    /\ Responded
    /\ request.limit >= 1
    /\ request.start[1] = "Hash"
    /\ StartUnresolvable
    /\ tx.stored # {}
    /\ Len(responses) = 1

(***************************************************************************)
(* C3.  As claimed: every request with limit > MAX_BLOCKS_COUNT is         *)
(* answered by exactly MAX_BLOCKS_COUNT payload groups followed by         *)
(* Fin::too_much().  This fails when the walk meets a missing block or     *)
(* leaves the block-number range before the ceiling.                       *)
(***************************************************************************)
C3_Original ==
    (Responded /\ request.limit > MAX_BLOCKS_COUNT)
        => /\ PayloadGroups(responses) = MAX_BLOCKS_COUNT
           /\ IsFinOf(LastFrame(responses), FinTooMuch)

(***************************************************************************)
(* C3, amended.  For a request with limit > MAX_BLOCKS_COUNT whose start   *)
(* resolves, the response holds min(MAX_BLOCKS_COUNT, reachable) payload   *)
(* groups and never more than MAX_BLOCKS_COUNT; its last frame is          *)
(* Fin::too_much() exactly when MAX_BLOCKS_COUNT consecutive blocks of the *)
(* walk exist, and Fin::unknown() otherwise.                               *)
(***************************************************************************)
C3_Ceiling ==
    (Responded /\ request.limit > MAX_BLOCKS_COUNT /\ ~StartUnresolvable)
        => LET reachable == Reachable(MAX_BLOCKS_COUNT) IN
           /\ PayloadGroups(responses) = reachable
           /\ PayloadGroups(responses) <= MAX_BLOCKS_COUNT
           /\ Len(visited) <= MAX_BLOCKS_COUNT
           /\ IF reachable = MAX_BLOCKS_COUNT
              THEN IsFinOf(LastFrame(responses), FinTooMuch)
              ELSE IsFinOf(LastFrame(responses), FinUnknown)

\* A truncated request served up to the ceiling.
C3_Witness ==
    /\ Responded
    /\ request.limit > MAX_BLOCKS_COUNT
    /\ PayloadGroups(responses) = MAX_BLOCKS_COUNT
    /\ IsFinOf(LastFrame(responses), FinTooMuch)

(***************************************************************************)
(* Shape of a response: every payload frame is followed by a payload frame *)
(* of the same block or by the Fin::ok() that seals its block (carrying    *)
(* the block's id where the frame type has one).                           *)
(***************************************************************************)
SealsBlockOf(fin, payload) ==
    /\ IsFinOf(fin, FinOk)
    /\ "id" \in DOMAIN fin => (fin.id # None /\ fin.id[1].number = FrameBlock(payload))

WellGrouped(resp) ==
    \A k \in 1 .. Len(resp) :
      IsPayload(resp[k]) =>
        /\ k < Len(resp)
        /\ \/ IsPayload(resp[k + 1]) /\ FrameBlock(resp[k + 1]) = FrameBlock(resp[k])
           \/ SealsBlockOf(resp[k + 1], resp[k])

\* The number of groups sealed before position k: the index of k's group.
GroupIndex(resp, k) == Cardinality({e \in GroupEnds(resp) : e < k})

(***************************************************************************)
(* C4.  For a request with 1 <= limit <= MAX_BLOCKS_COUNT whose start      *)
(* resolves, the response holds exactly min(limit, reachable) payload      *)
(* groups, each sealed by Fin::ok(); if reachable < limit it ends with     *)
(* Fin::unknown(), otherwise nothing follows the last block's Fin::ok().   *)
(***************************************************************************)
C4_Completeness ==
    (Responded /\ request.limit >= 1 /\ request.limit <= MAX_BLOCKS_COUNT
        /\ ~StartUnresolvable)
        => LET reachable == Reachable(request.limit) IN
           /\ PayloadGroups(responses) = Min(request.limit, reachable)
           /\ WellGrouped(responses)
           /\ IF reachable < request.limit
              THEN /\ Terminals(responses) = << FromFin(request.kind, FinUnknown) >>
              ELSE /\ Terminals(responses) = << >>
                   /\ IsFinOf(LastFrame(responses), FinOk)

\* A walk that runs off the stored blocks after serving some: E2E-2.
C4_Witness ==
    /\ Responded
    /\ request.limit <= MAX_BLOCKS_COUNT
    /\ PayloadGroups(responses) >= 2
    /\ PayloadGroups(responses) < request.limit
    /\ IsFinOf(LastFrame(responses), FinUnknown)

(***************************************************************************)
(* C5.  As claimed: every response holds exactly one terminal Fin, which   *)
(* is Fin::unknown() or Fin::too_much(), never Fin::ok().  This fails for  *)
(* limit = 0 (the terminal is Fin::ok()) and for a fully served request    *)
(* within the ceiling (there is no terminal at all).                       *)
(***************************************************************************)
C5_Original ==
    Responded
        => /\ Len(Terminals(responses)) = 1
           /\ \/ IsFinOf(LastFrame(responses), FinUnknown)
              \/ IsFinOf(LastFrame(responses), FinTooMuch)

(***************************************************************************)
(* C5, amended.  Every response holds at most one terminal Fin, as its     *)
(* last frame and without block id.  A response to limit = 0 holds the     *)
(* terminal Fin::ok(); a response to limit >= 1 holds none exactly when    *)
(* limit <= MAX_BLOCKS_COUNT and all limit blocks were served, and         *)
(* otherwise one that is Fin::unknown() or Fin::too_much(), never          *)
(* Fin::ok().                                                              *)
(***************************************************************************)
C5_OneTerminal ==
    Responded
        => LET t == Terminals(responses) IN
           /\ Len(t) <= 1
           /\ \A k \in 1 .. Len(t) : t[k] \in {FromFin(request.kind, FinOk),
                                              FromFin(request.kind, FinUnknown),
                                              FromFin(request.kind, FinTooMuch)}
           /\ request.limit = 0 => t = << FromFin(request.kind, FinOk) >>
           /\ request.limit >= 1 =>
                /\ t # << FromFin(request.kind, FinOk) >>
                /\ t = << >> <=> /\ request.limit <= MAX_BLOCKS_COUNT
                                 /\ PayloadGroups(responses) = request.limit

\* A fully served request within the ceiling: no terminal.
C5_Witness ==
    /\ Responded
    /\ request.limit >= 2
    /\ PayloadGroups(responses) = request.limit
    /\ Terminals(responses) = << >>

(***************************************************************************)
(* C6.  The frames of a response are grouped per block: the payload frames *)
(* of a block are followed by exactly one Fin::ok() of that block before   *)
(* any payload frame of another block, and no payload frame is left        *)
(* without its closing Fin::ok().  This holds of the buffer after every    *)
(* successful handler call as well.                                        *)
(***************************************************************************)
C6_Grouping ==
    /\ result # "err" => WellGrouped(responses)
    /\ Responded =>
         \A k \in 1 .. Len(responses) :
           IsFin(responses[k]) =>
             \/ k \in GroupEnds(responses)
             \/ k = Len(responses)

\* A headers response with a two-frame group (Header, Signatures) and another group.
C6_Witness ==
    /\ Responded
    /\ PayloadGroups(responses) >= 2
    /\ \E k \in 1 .. Len(responses) - 1 :
         IsPayload(responses[k]) /\ IsPayload(responses[k + 1])

(***************************************************************************)
(* C7.  The i-th payload group (i = 0, 1, ...) pertains to block           *)
(* start + i*step (Forward) or start - i*step (Backward): the handler is   *)
(* called on the blocks of the walk in order, none skipped, none repeated, *)
(* and on at most min(limit, MAX_BLOCKS_COUNT) of them.                    *)
(***************************************************************************)
C7_WalkOrder ==
    result \notin {"err", "rejected"} =>
      /\ \A k \in 1 .. Len(responses) :
           IsPayload(responses[k]) => FrameBlock(responses[k]) = Walk(GroupIndex(responses, k))
      /\ \A j \in 1 .. Len(visited) : visited[j] = Walk(j - 1)
      /\ \A j, k \in 1 .. Len(visited) : j # k => visited[j] # visited[k]
      /\ Len(visited) <= Min(request.limit, MAX_BLOCKS_COUNT)
      /\ PayloadGroups(responses) <= Len(visited)
      /\ Responded => PayloadGroups(responses) >= Len(visited) - 1

\* A backward walk with step 2 that served two blocks.
C7_Witness ==
    /\ Responded
    /\ request.direction = "Backward"
    /\ request.step = 2
    /\ PayloadGroups(responses) = 2
    /\ visited = << StartNumber, StartNumber - 2 >>

(***************************************************************************)
(* C8.  As claimed: a response ends with Fin::ok() only if the iteration   *)
(* completed and at least one payload frame was emitted; with              *)
(* Fin::unknown() only when the range was exhausted or the start was not   *)
(* found; with Fin::too_much() only when the request was truncated at the  *)
(* ceiling.  The first part fails for limit = 0: [Fin::ok()], no payload.  *)
(***************************************************************************)
AllServed == PayloadGroups(responses) = Min(request.limit, MAX_BLOCKS_COUNT)

RangeExhausted == Reachable(Min(request.limit, MAX_BLOCKS_COUNT)) < Min(request.limit, MAX_BLOCKS_COUNT)

C8_Original ==
    Responded =>
      /\ IsFinOf(LastFrame(responses), FinOk) =>
           AllServed /\ \E k \in 1 .. Len(responses) : IsPayload(responses[k])
      /\ IsFinOf(LastFrame(responses), FinUnknown) => (StartUnresolvable \/ RangeExhausted)
      /\ IsFinOf(LastFrame(responses), FinTooMuch) => request.limit > MAX_BLOCKS_COUNT

(***************************************************************************)
(* C8, amended.  A response ends with Fin::ok() only if limit = 0 (then it *)
(* is the only frame) or limit <= MAX_BLOCKS_COUNT and all limit blocks    *)
(* were served (then at least one payload frame was emitted); with         *)
(* Fin::unknown() only when the start was not found or the walk met a      *)
(* missing block or left the block-number range; with Fin::too_much() only *)
(* when limit > MAX_BLOCKS_COUNT and MAX_BLOCKS_COUNT blocks were served.  *)
(***************************************************************************)
C8_Terminals ==
    Responded =>
      /\ IsFinOf(LastFrame(responses), FinOk) =>
           \/ request.limit = 0 /\ Len(responses) = 1
           \/ /\ request.limit >= 1
              /\ request.limit <= MAX_BLOCKS_COUNT
              /\ AllServed
              /\ \E k \in 1 .. Len(responses) : IsPayload(responses[k])
      /\ IsFinOf(LastFrame(responses), FinUnknown) =>
           request.limit >= 1 /\ (StartUnresolvable \/ RangeExhausted)
      /\ IsFinOf(LastFrame(responses), FinTooMuch) =>
           request.limit > MAX_BLOCKS_COUNT /\ AllServed

\* A fully served request within the ceiling: its last frame is the last
\* block's Fin::ok().
C8_Witness ==
    /\ Responded
    /\ request.limit >= 1
    /\ IsFinOf(LastFrame(responses), FinOk)
    /\ PayloadGroups(responses) = request.limit

Appended(call) == SubSeq(call.after, Len(call.before) + 1, Len(call.after))

Extends(call) ==
    /\ Len(call.before) <= Len(call.after)
    /\ SubSeq(call.after, 1, Len(call.before)) = call.before

\* At least one payload frame and then a closing Fin::ok().
PayloadAndFin(frames) ==
    /\ Len(frames) >= 2
    /\ \A k \in 1 .. Len(frames) - 1 : IsPayload(frames[k])
    /\ IsFinOf(frames[Len(frames)], FinOk)

(***************************************************************************)
(* C10.  As claimed: a block handler returns true if and only if it        *)
(* appended at least one payload frame and a closing Fin::ok(), and        *)
(* whenever it does not return true the buffer is unchanged.  The second   *)
(* part fails when a query fails after a frame was pushed: get_header has  *)
(* pushed the Header when the signature query fails, get_body the Diff     *)
(* when `classes` fails.                                                   *)
(***************************************************************************)
C10_Original ==
    last_call # None =>
      LET call == last_call[1] IN
      /\ Extends(call)
      /\ call.ret = "true" <=> PayloadAndFin(Appended(call))
      /\ call.ret # "true" => call.after = call.before

(***************************************************************************)
(* C10, amended.  A block handler returns Ok(true) if and only if it       *)
(* appended at least one payload frame and a closing Fin::ok(); when it    *)
(* returns Ok(false) the buffer is unchanged; when it returns an error it  *)
(* has appended at most one frame, a payload frame (the header handler's   *)
(* Header, the body handler's Diff; the other three append nothing), never *)
(* a Fin, and iterate returns the error without any frame of the buffer.   *)
(***************************************************************************)
C10_HandlerEffect ==
    last_call # None =>
      LET call == last_call[1] IN
      /\ Extends(call)
      /\ call.ret = "true" <=> PayloadAndFin(Appended(call))
      /\ call.ret = "false" => call.after = call.before
      /\ call.ret = "err" =>
           /\ Len(Appended(call)) <= 1
           /\ \A k \in 1 .. Len(Appended(call)) :
                /\ Appended(call)[k].type \in {"Header", "Diff"}
                /\ request.kind \in {"headers", "bodies"}
           /\ result = "err"
           /\ responses = << >>

\* A failing call on a later block, which left a frame in the buffer.
C10_Witness ==
    /\ last_call # None
    /\ last_call[1].ret = "err"
    /\ last_call[1].before # << >>
    /\ Len(last_call[1].after) = Len(last_call[1].before) + 1

(***************************************************************************)
(* Serving a request: get_bodies, get_transactions, get_receipts and       *)
(* get_events run the blocking getter and hand its frames to `send`, which *)
(* puts them on the bounded response channel one at a time.                *)
(***************************************************************************)
MaxSendLen == 3
FrameKinds == 2
ChannelCapacity == 2

SendFrames == 1 .. FrameKinds

\* The frame lists a getter can return.
FrameLists == UNION {[1 .. n -> SendFrames] : n \in 0 .. MaxSendLen}

\* The element the k-th pass of the loop of `send` takes from its list.
elem_at_reversed(seq, k) == seq[Len(seq) - k]
elem_at(seq, k) == seq[k + 1]

InitSend ==
    /\ send_seq = << >>
    /\ send_pos = 0
    /\ channel = << >>
    /\ accepted = << >>
    /\ received = << >>
    /\ receiver = "open"
    /\ send_result = "blocking"
    /\ not_send_idle

\* spawn_blocking_get(...).await?: the frames of the getter, or its error.
SpawnBlockingGet ==
    /\ send_result = "blocking"
    /\ \/ \E got \in FrameLists : send_seq' = got /\ send_result' = "sending"
       \/ send_seq' = send_seq /\ send_result' = "err"
    /\ UNCHANGED << send_pos, channel, accepted, received, receiver >>
    /\ UNCHANGED not_send

\* tx.send(elem).await with room in the channel and the receiver alive.
SendElem ==
    /\ send_result = "sending"
    /\ send_pos < Len(send_seq)
    /\ receiver = "open"
    /\ Len(channel) < ChannelCapacity
    /\ channel' = Append(channel, elem_at(send_seq, send_pos))
    /\ accepted' = Append(accepted, elem_at(send_seq, send_pos))
    /\ send_pos' = send_pos + 1
    /\ UNCHANGED << send_seq, received, receiver, send_result >>
    /\ UNCHANGED not_send

\* What `?` makes of a failed tx.send at position pos of the loop: the
\* error is returned, the loop goes no further.
send_failed_ignored(pos) == << "sending", pos + 1 >>
send_failed(pos) == << "err", pos >>

\* tx.send(elem).await.context("Sending response")? with the receiver gone.
SendFailed ==
    /\ send_result = "sending"
    /\ send_pos < Len(send_seq)
    /\ receiver = "closed"
    /\ send_result' = send_failed(send_pos)[1]
    /\ send_pos' = send_failed(send_pos)[2]
    /\ UNCHANGED << send_seq, channel, accepted, received, receiver >>
    /\ UNCHANGED not_send

\* The loop has run out of elements: Ok(()).
SendReturn ==
    /\ send_result = "sending"
    /\ send_pos = Len(send_seq)
    /\ send_result' = "ok"
    /\ UNCHANGED << send_seq, send_pos, channel, accepted, received, receiver >>
    /\ UNCHANGED not_send

\* The peer side of the stream takes the oldest frame of the channel.
Receive ==
    /\ receiver = "open"
    /\ channel # << >>
    /\ received' = Append(received, Head(channel))
    /\ channel' = Tail(channel)
    /\ UNCHANGED << send_seq, send_pos, accepted, receiver, send_result >>
    /\ UNCHANGED not_send

\* The peer side of the stream goes away; what the channel held is dropped.
CloseReceiver ==
    /\ receiver = "open"
    /\ receiver' = "closed"
    /\ channel' = << >>
    /\ UNCHANGED << send_seq, send_pos, accepted, received, send_result >>
    /\ UNCHANGED not_send

NextSend ==
    SpawnBlockingGet \/ SendElem \/ SendFailed \/ SendReturn \/ Receive \/ CloseReceiver

SpecSend == InitSend /\ [][NextSend]_vars

IsPrefixOf(s, t) == Len(s) <= Len(t) /\ s = SubSeq(t, 1, Len(s))

\* C11: the frames the response channel accepted are, at every moment, the
\* first send_pos frames of the handler's buffer in the buffer's order; when
\* `send` returns Ok they are the whole buffer; and the receiver takes them
\* in that same order, with the frames still in the channel following on.
C11_SendOrder ==
    /\ send_pos <= Len(send_seq)
    /\ accepted = SubSeq(send_seq, 1, send_pos)
    /\ send_result = "ok" => accepted = send_seq
    /\ IsPrefixOf(received, accepted)
    /\ receiver = "open" => received \o channel = accepted

\* A buffer of several frames, not all alike, sent and received in full.
C11_Witness ==
    /\ send_result = "ok"
    /\ Len(send_seq) >= 2
    /\ send_seq[1] # send_seq[2]
    /\ received = send_seq

(***************************************************************************)
(* Re-execution example: the comparison of the estimated gas with the gas  *)
(* the receipt's fee paid for.  u128 is scaled to U128_BITS bits and a     *)
(* field element to one bit more, so that a fee can exceed a u128 as it    *)
(* can in the program.                                                      *)
(***************************************************************************)
U128_BITS == 4

U128_MAX == 2 ^ U128_BITS - 1

FELT_MAX == 2 * U128_MAX + 1

\* u128::from_be_bytes(actual_fee.0.to_be_bytes()[16..]): the low 16 bytes.
low_u128(felt) == felt % (U128_MAX + 1)

max(a, b) == IF a >= b THEN a ELSE b

abs_diff(a, b) == IF a >= b THEN a - b ELSE b - a

\* What one pass of the comparison loop does with an (estimate, receipt)
\* pair: nothing for a receipt without a fee or with a fee of zero, else a
\* warning or none.  A division by zero panics, and `actual_gas_consumed * 2`
\* beyond u128 panics in a build with overflow checks and wraps in one
\* without.
compare(estimate, actual_fee, gas_price, overflow_checks) ==
    IF actual_fee = None THEN "no_fee"
    ELSE LET fee == low_u128(actual_fee[1]) IN
         IF fee = 0 THEN "zero_fee"
         ELSE IF max(gas_price, 1) = 0 THEN "panic"
         ELSE LET actual_gas_consumed == fee \div max(gas_price, 1)
                  estimated_gas_consumed == estimate.gas_consumed
                  diff == abs_diff(actual_gas_consumed, estimated_gas_consumed)
              IN  IF actual_gas_consumed * 2 > U128_MAX /\ overflow_checks THEN "panic"
                  ELSE IF diff > ((actual_gas_consumed * 2) % (U128_MAX + 1)) \div 10
                       THEN "warn"
                       ELSE "quiet"

\* fee_estimates.iter().zip(work.receipts.iter()): the positions compared.
zip_positions(fee_estimates, receipts) ==
    1 .. (IF Len(fee_estimates) <= Len(receipts) THEN Len(fee_estimates) ELSE Len(receipts))

(***************************************************************************)
(* Re-execution example: the pool.  The main thread loads each block of    *)
(* first_block ..= last_block and sends it on a bounded channel; executor  *)
(* threads receive, re-execute and compare.  The data the program reads    *)
(* beyond the stored transactions and receipts (fee, gas price, what the   *)
(* executor estimates) is a fixed function of the block number.            *)
(***************************************************************************)
POOL_BLOCK_MAX == 4
WORK_CHANNEL_CAPACITY == 2
N_CPUS == 2

PoolBlocks == 0 .. POOL_BLOCK_MAX

Executors == 1 .. N_CPUS

\* receipt.actual_fee of transaction j of block n: none, zero or 5.
ActualFeeOf(n, j) == IF j = 2 THEN (IF n % 2 = 0 THEN None ELSE Some(0)) ELSE Some(5)

\* header.eth_l1_gas_price of block n.
GasPriceOf(n) == n % 2

\* estimate.gas_consumed of transaction j of block n: within a fifth of the
\* actual gas for blocks below 2; from block 2 on off by more for the first
\* transaction of a block and within a fifth for the second.
EstimatedGasOf(n, j) == IF n < 2 THEN 4 ELSE 2 + j

actual_fee(receipt) == ActualFeeOf(receipt.transaction_hash[2], receipt.transaction_hash[3])

eth_l1_gas_price(header) == GasPriceOf(header.number)

\* Anomalies of the pool's database and executor, each located at one block.
PoolLoadFaults == {"err_block_header", "err_transaction_data", "no_transaction_data"}

PoolOpenFaults == {"err_connection", "err_create_transaction"}

PoolExecutionFaults == {"err_conversion", "err_estimate"}

\* The database stops giving out connections: from one block on, every
\* executor that asks for one fails.
PoolOutageFaults == {"err_connection_from"}

\* storage.connection().unwrap() / connection.transaction().expect(..) of
\* an executor about to re-execute block n fails.
open_fails(d, n) ==
    \/ Hit(d, "err_connection", n)
    \/ Hit(d, "err_create_transaction", n)
    \/ d.anomaly.what = "err_connection_from" /\ n >= d.anomaly.at

\* compose_executor_transaction over the transactions of a work item.
compose_executor_transactions(d, work) ==
    IF Hit(d, "err_conversion", work.header.number) THEN Err
    ELSE Ok(work.transactions)

\* pathfinder_executor::estimate: one fee estimate per transaction.
estimate(d, header, transactions) ==
    IF Hit(d, "err_estimate", header.number) THEN Err
    ELSE Ok([j \in 1 .. Len(transactions) |->
               [gas_consumed |-> EstimatedGasOf(header.number, j)]])

\* One pass of the producer's loop up to the send: the Work item of the
\* block, or how the pass ends main ("error" for a `?`, "panic" for an
\* unwrap of an absent header).
load_work(d, n) ==
    LET block_header_ == block_header(d, n)
        transactions_and_receipts == transaction_data_for_block(d, n)
    IN  IF ~block_header_.ok THEN [ok |-> FALSE, v |-> "error"]
        ELSE IF block_header_.v = None THEN [ok |-> FALSE, v |-> "panic"]
        ELSE IF ~transactions_and_receipts.ok \/ transactions_and_receipts.v = None
             THEN [ok |-> FALSE, v |-> "error"]
        ELSE LET pairs == transactions_and_receipts.v[1] IN
             Ok([header |-> block_header_.v[1],
                 transactions |-> [j \in 1 .. Len(pairs) |-> pairs[j][1]],
                 receipts |-> [j \in 1 .. Len(pairs) |-> pairs[j][2]]])

\* Every valid range (the empty ones too) over a sound database.
InitPoolSound ==
    /\ db = [stored |-> PoolBlocks, anomaly |-> NoAnomaly]
    /\ first_block \in PoolBlocks
    /\ last_block \in PoolBlocks

\* The whole chain asked for, with one anomaly at one of its blocks, or
\* with a last block the database does not hold.
InitPoolFaulty ==
    /\ first_block = 0
    /\ last_block = POOL_BLOCK_MAX
    /\ \/ \E at \in PoolBlocks :
            \E what \in PoolLoadFaults \cup PoolOpenFaults \cup PoolExecutionFaults
                         \cup PoolOutageFaults :
              db = [stored |-> PoolBlocks, anomaly |-> [what |-> what, at |-> at]]
       \/ db = [stored |-> PoolBlocks \ {POOL_BLOCK_MAX}, anomaly |-> NoAnomaly]

\* The state when the producer's loop is entered: the channel is created
\* and the executors are spawned.
InitPool ==
    /\ InitPoolSound \/ InitPoolFaulty
    /\ main = "load"
    /\ next_block = first_block
    /\ work_channel = << >>
    /\ sent = << >>
    /\ joined = 0
    /\ executors = [w \in Executors |-> [pc |-> "recv", work |-> None]]
    /\ log = {}
    /\ received_count = [n \in PoolBlocks |-> 0]
    /\ estimate_count = [n \in PoolBlocks |-> 0]
    /\ not_pool_idle

\* The process is gone once main has returned or panicked.
ProcessAlive == main \in {"load", "send", "drop", "join"}

\* The send end of the channel lives until drop(tx).
SenderAlive_kept == main \in {"load", "send", "drop", "join"}
SenderAlive == main \in {"load", "send", "drop"}

\* The block number after n in first_block ..= last_block.
range_next_skipping(n) == n + 2
range_next(n) == n + 1

\* for block_number in first_block ..= last_block: the loads of one pass.
Load ==
    /\ main = "load"
    /\ IF next_block > last_block
       THEN main' = "drop" /\ log' = log
       ELSE LET loaded == load_work(db, next_block) IN
            IF loaded.ok
            THEN /\ main' = "send"
                 /\ log' = log \cup {<< "debug", "Submitting block", next_block >>}
            ELSE /\ main' = (IF loaded.v = "panic" THEN "panicked" ELSE "failed")
                 /\ log' = log
    /\ UNCHANGED << db, first_block, last_block, sent, next_block, work_channel, joined,
                    executors, received_count, estimate_count >>
    /\ UNCHANGED not_pool

\* crossbeam_channel::bounded(cap): the channel is full with cap messages.
is_full_never(queue) == FALSE
is_full(queue) == Len(queue) >= WORK_CHANNEL_CAPACITY

\* tx.send(Work { .. }).unwrap(): blocks while the channel is full.
Send ==
    /\ main = "send"
    /\ ~is_full(work_channel)
    /\ work_channel' = Append(work_channel, load_work(db, next_block).v)
    /\ sent' = Append(sent, next_block)
    /\ next_block' = range_next(next_block)
    /\ main' = "load"
    /\ UNCHANGED << db, first_block, last_block, joined, executors, log,
                    received_count, estimate_count >>
    /\ UNCHANGED not_pool

\* drop(tx)
DropTx ==
    /\ main = "drop"
    /\ main' = "join"
    /\ UNCHANGED << db, first_block, last_block, sent, next_block, work_channel, joined,
                    executors, log, received_count, estimate_count >>
    /\ UNCHANGED not_pool

\* What .expect("Executor expected to shut down") makes of a join: main
\* goes on if the thread ended by returning and panics if it panicked.
join_expect_ignored(ended) == "joined"
join_expect(ended) == IF ended = "exited" THEN "joined" ELSE "panic"

\* executor.join().expect(..) for the next executor, which has finished.
Join ==
    /\ main = "join"
    /\ joined < N_CPUS
    /\ executors[joined + 1].pc \in {"exited", "panicked"}
    /\ IF join_expect(executors[joined + 1].pc) = "joined"
       THEN joined' = joined + 1 /\ main' = main
       ELSE joined' = joined /\ main' = "panicked"
    /\ UNCHANGED << db, first_block, last_block, sent, next_block, work_channel, executors,
                    log, received_count, estimate_count >>
    /\ UNCHANGED not_pool

\* Every executor joined: Ok(()).
Return ==
    /\ main = "join"
    /\ joined = N_CPUS
    /\ main' = "returned"
    /\ log' = log \cup {<< "debug", "Finished" >>}
    /\ UNCHANGED << db, first_block, last_block, sent, next_block, work_channel, joined,
                    executors, received_count, estimate_count >>
    /\ UNCHANGED not_pool

\* What rx.recv() gives: the oldest item and the rest of the channel.
recv_keeping(queue) == << Head(queue), queue >>
recv(queue) == << Head(queue), Tail(queue) >>

\* while let Ok(work) = rx.recv(), with an item in the channel.
Recv(w) ==
    /\ ProcessAlive
    /\ executors[w].pc = "recv"
    /\ work_channel # << >>
    /\ LET got == recv(work_channel) IN
         /\ executors' = [executors EXCEPT ![w] = [pc |-> "busy", work |-> Some(got[1])]]
         /\ work_channel' = got[2]
         /\ received_count' = [received_count EXCEPT ![got[1].header.number] = @ + 1]
    /\ UNCHANGED << db, first_block, last_block, sent, main, next_block, joined, log,
                    estimate_count >>
    /\ UNCHANGED not_pool

\* When rx.recv() gives Err: the channel is empty and has no sender left.
disconnected_though_filled(queue, sender_alive) == ~sender_alive
disconnected(queue, sender_alive) == queue = << >> /\ ~sender_alive

\* rx.recv() is Err once the channel is empty and its send end dropped:
\* the loop and the thread end.
Exit(w) ==
    /\ ProcessAlive
    /\ executors[w].pc = "recv"
    /\ disconnected(work_channel, SenderAlive)
    /\ executors' = [executors EXCEPT ![w] = [pc |-> "exited", work |-> None]]
    /\ UNCHANGED << db, first_block, last_block, sent, main, next_block, work_channel,
                    joined, log, received_count, estimate_count >>
    /\ UNCHANGED not_pool

\* Where the loop of `execute` goes when the conversion failed: `continue`.
on_conversion_error_break == "exited"
on_conversion_error == "recv"

\* The warnings of one block: the positions whose comparison warns.
\* Mutant: estimate j is compared with the receipt j places from the end.
mismatches_crosswise(fee_estimates, work) ==
    {j \in zip_positions(fee_estimates, work.receipts) :
       compare(fee_estimates[j], actual_fee(work.receipts[Len(work.receipts) + 1 - j]),
               eth_l1_gas_price(work.header), FALSE) = "warn"}

mismatches(fee_estimates, work) ==
    {j \in zip_positions(fee_estimates, work.receipts) :
       compare(fee_estimates[j], actual_fee(work.receipts[j]),
               eth_l1_gas_price(work.header), FALSE) = "warn"}

\* One pass of the body of the loop of `execute` with the work item
\* received: the connection and transaction are opened (the thread panics
\* if either fails), the transactions converted (an error is logged and
\* the pass ends), the fees estimated and compared with the receipts (an
\* error is logged).
Process(w) ==
    /\ ProcessAlive
    /\ executors[w].pc = "busy"
    /\ LET work == executors[w].work[1]
           n == work.header.number
           transactions == compose_executor_transactions(db, work)
           fee_estimates == estimate(db, work.header, transactions.v)
       IN  IF open_fails(db, n)
           THEN /\ executors' = [executors EXCEPT ![w].pc = "panicked"]
                /\ UNCHANGED << log, estimate_count >>
           ELSE IF ~transactions.ok
           THEN /\ executors' = [executors EXCEPT
                                   ![w] = [pc |-> on_conversion_error, work |-> None]]
                /\ log' = log \cup {<< "error", "Transaction conversion failed", n >>}
                /\ UNCHANGED estimate_count
           ELSE /\ executors' = [executors EXCEPT ![w] = [pc |-> "recv", work |-> None]]
                /\ estimate_count' = [estimate_count EXCEPT ![n] = @ + 1]
                /\ log' = log
                     \cup (IF fee_estimates.ok
                           THEN {<< "warn", "Estimation mismatch", n, j >> :
                                   j \in mismatches(fee_estimates.v, work)}
                           ELSE {<< "error", "Transaction re-execution failed", n >>})
                     \cup {<< "debug", "Re-executed block", n >>}
    /\ UNCHANGED << db, first_block, last_block, sent, main, next_block, work_channel,
                    joined, received_count >>
    /\ UNCHANGED not_pool

MainStep == Load \/ Send \/ DropTx \/ Join \/ Return

ExecutorStep(w) == Recv(w) \/ Exit(w) \/ Process(w)

NextPool ==
    \/ Load
    \/ Send
    \/ DropTx
    \/ Join
    \/ Return
    \/ \E w \in Executors : Recv(w)
    \/ \E w \in Executors : Exit(w)
    \/ \E w \in Executors : Process(w)

SpecPool == InitPool /\ [][NextPool]_vars

\* Every thread that can run is scheduled: the threads are operating system
\* threads, and none of them waits for anything but the channel or a join.
SpecPoolFair ==
    /\ SpecPool
    /\ WF_vars(MainStep)
    /\ \A w \in Executors : WF_vars(ExecutorStep(w))

(***************************************************************************)
(* Claims about the re-execution pool.                                     *)
(***************************************************************************)
RequestedRange == {n \in PoolBlocks : first_block <= n /\ n <= last_block}

ExecutorPanicked == \E w \in Executors : executors[w].pc = "panicked"

AllExecutorsExited == \A w \in Executors : executors[w].pc = "exited"

\* C12: the pool terminates.  Once the producer has dropped the send end,
\* main's joins come to an end, for every block range, the empty ones
\* included; when main returns, every executor has left its loop on the
\* closed and empty channel and has been joined; and main ends otherwise
\* only where a load failed or an executor panicked, so that with no such
\* failure every executor observes the close and the joins return.
C12_Termination ==
    /\ (main = "join") ~> (main \in {"returned", "panicked"})
    /\ [](main = "returned" =>
            AllExecutorsExited /\ joined = N_CPUS /\ work_channel = << >>)
    /\ [](main = "panicked" /\ db.anomaly.what \notin PoolLoadFaults
            /\ db.stored = PoolBlocks => ExecutorPanicked)
    /\ [](main = "failed" => db.anomaly.what \in PoolLoadFaults)

\* A range of several blocks, all re-executed, and the pool shut down.
C12_Witness ==
    /\ main = "returned"
    /\ last_block >= first_block + 2
    /\ AllExecutorsExited
    /\ \A n \in RequestedRange : estimate_count[n] = 1

\* The executors holding block n, and the channel positions holding it.
HoldersOf(n) ==
    {w \in Executors : executors[w].work # None /\ executors[w].work[1].header.number = n}

QueuedAt(n) == {k \in 1 .. Len(work_channel) : work_channel[k].header.number = n}

Failed(n) ==
    \/ << "error", "Transaction conversion failed", n >> \in log
    \/ << "error", "Transaction re-execution failed", n >> \in log

\* C13: re-execution is at most once.  Every block is received at most
\* once, so by at most one executor, and estimated at most once and only
\* after it was received; it is never both queued and held, nor queued or
\* held twice; and a block whose processing failed is neither in the
\* channel nor with an executor again.
C13_AtMostOnce ==
    \A n \in PoolBlocks :
      /\ received_count[n] <= 1
      /\ estimate_count[n] <= received_count[n]
      /\ Cardinality(HoldersOf(n)) + Cardinality(QueuedAt(n)) <= 1
      /\ received_count[n] = 1 => QueuedAt(n) = {}
      /\ Failed(n) => received_count[n] = 1 /\ QueuedAt(n) = {} /\ HoldersOf(n) = {}

\* The pool has shut down after a block failed in conversion: the block
\* was received once and never estimated, the blocks after it were done.
C13_Witness ==
    /\ main = "returned"
    /\ \E n \in RequestedRange :
         /\ << "error", "Transaction conversion failed", n >> \in log
         /\ received_count[n] = 1
         /\ estimate_count[n] = 0
         /\ n < last_block
         /\ estimate_count[last_block] = 1

\* Executor w holds a block whose conversion or estimate fails.
AtExecutionError(w) ==
    /\ executors[w].work # None
    /\ LET n == executors[w].work[1].header.number IN
         /\ executors[w].pc = "busy"
         /\ Hit(db, "err_conversion", n) \/ Hit(db, "err_estimate", n)

ErrorLogged(n) ==
    IF Hit(db, "err_conversion", n)
    THEN << "error", "Transaction conversion failed", n >>
    ELSE << "error", "Transaction re-execution failed", n >>

\* The step of executor w at a failing conversion or estimate: the error
\* is logged, nothing is compared, the executor is back at rx.recv() with
\* no work, and the producer, the channel and the other executors are as
\* they were.
ExecutionErrorSkipped(w) ==
    LET n == executors[w].work[1].header.number IN
    /\ ErrorLogged(n) \in log'
    /\ \A j \in 1 .. 2 : << "warn", "Estimation mismatch", n, j >> \notin log'
    /\ executors'[w] = [pc |-> "recv", work |-> None]
    /\ \A v \in Executors \ {w} : executors'[v] = executors[v]
    /\ << main, next_block, work_channel, joined >>' = << main, next_block, work_channel, joined >>

\* C14: an execution error on one block, a failed conversion or an estimate
\* that returns an error, is logged and the block skipped: the executor goes
\* back to receive the next item, the other executors and the producer are
\* untouched, no thread panics, and the pool runs to its normal end with
\* every other block of the range estimated.
C14_ErrorSkipped ==
    /\ [][\A w \in Executors :
            AtExecutionError(w) /\ executors'[w] # executors[w]
              => ExecutionErrorSkipped(w)]_vars
    /\ [](db.anomaly.what \in PoolExecutionFaults =>
            /\ main \notin {"failed", "panicked"}
            /\ ~ExecutorPanicked
            /\ main = "returned" =>
                 \A n \in RequestedRange :
                   /\ estimate_count[n] = (IF Hit(db, "err_conversion", n) THEN 0 ELSE 1)
                   /\ Failed(n) <=> n = db.anomaly.at)

\* An executor logged the failed conversion of a block and then received
\* a later block, which it is now re-executing: every other executor has
\* been busy with an earlier block since before the failing one was sent.
C14_Witness ==
    \E w \in Executors :
      \E n \in RequestedRange :
        /\ << "error", "Transaction conversion failed", n >> \in log
        /\ executors[w].pc = "busy"
        /\ executors[w].work[1].header.number > n
        /\ \A v \in Executors \ {w} :
             executors[v].pc = "busy" /\ executors[v].work[1].header.number < n

BadBlock == db.anomaly.at

\* C15 as stated: with one bad block, whatever the step that fails for it,
\* no thread of the pool panics, main does not end with an error, and when
\* main returns every other block of the range has been estimated.
C15_Original ==
    db.anomaly.what # "none" =>
      /\ main \notin {"failed", "panicked"}
      /\ ~ExecutorPanicked
      /\ main = "returned" =>
           \A n \in RequestedRange \ {BadBlock} : estimate_count[n] = 1

\* C15: what one bad block does to the pool depends on the step that
\* fails.  A failed conversion or estimate is survived: no thread panics
\* and main returns only with every other block estimated.  A block the
\* producer cannot load ends main in that pass of its loop, no later
\* block is ever sent and main never returns normally.  A block for which
\* the executor cannot open its connection or transaction panics that
\* executor: the block is never estimated, and main never returns
\* normally, because its join of that executor panics.
C15_BadBlock ==
    /\ db.anomaly.what \in PoolExecutionFaults =>
         /\ main \notin {"failed", "panicked"}
         /\ ~ExecutorPanicked
         /\ main = "returned" =>
              \A n \in RequestedRange \ {BadBlock} : estimate_count[n] = 1
    /\ db.anomaly.what \in PoolLoadFaults =>
         /\ main # "returned"
         /\ next_block <= BadBlock
         /\ \A n \in PoolBlocks : n >= BadBlock => received_count[n] = 0
         /\ ~ExecutorPanicked
    /\ db.anomaly.what \in PoolOpenFaults =>
         /\ main \notin {"returned", "failed"}
         /\ estimate_count[BadBlock] = 0
         /\ main = "panicked" => ExecutorPanicked /\ joined < N_CPUS

\* The pool torn down by one block: an executor panicked opening its
\* connection, main panicked joining it, and a block that was sent after
\* the bad one was never estimated.
C15_Witness ==
    /\ db.anomaly.what \in PoolOpenFaults
    /\ main = "panicked"
    /\ \E n \in RequestedRange :
         /\ n > BadBlock
         /\ received_count[n] = 1
         /\ estimate_count[n] = 0

QueuedBlocks == [k \in 1 .. Len(work_channel) |-> work_channel[k].header.number]

\* C20: the producer sends in strictly ascending block order, one item per
\* block, with no gap and no duplicate: the k-th item sent is block
\* first_block + k - 1, nothing beyond last_block is sent, the channel holds
\* the latest items sent in that order, and once the send end is dropped
\* the items sent are the whole range.
C20_AscendingSubmission ==
    /\ \A k \in 1 .. Len(sent) : sent[k] = first_block + k - 1
    /\ \A k \in 1 .. Len(sent) : sent[k] <= last_block
    /\ Len(QueuedBlocks) <= Len(sent)
    /\ QueuedBlocks = SubSeq(sent, Len(sent) - Len(QueuedBlocks) + 1, Len(sent))
    /\ main \in {"join", "returned"} =>
         {sent[k] : k \in 1 .. Len(sent)} = RequestedRange

\* Every block of a range of three or more was sent, and the executors
\* finish out of order: a block is estimated while the block before it
\* is still with the other executor.
C20_Witness ==
    /\ main = "join"
    /\ Len(sent) >= 3
    /\ \E n \in RequestedRange :
         /\ n + 1 \in RequestedRange
         /\ estimate_count[n + 1] = 1
         /\ estimate_count[n] = 0
         /\ HoldersOf(n) # {}
         /\ db.anomaly = NoAnomaly

(***************************************************************************)
(* One pass of the comparison loop, over every estimate, fee and gas price *)
(* of the scaled widths, in a build with and without overflow checks.      *)
(***************************************************************************)
InitGas ==
    /\ estimate_gas_consumed \in 0 .. U128_MAX
    /\ receipt_actual_fee \in {None} \cup {Some(fee) : fee \in 0 .. FELT_MAX}
    /\ header_gas_price \in 0 .. U128_MAX
    /\ build_overflow_checks \in BOOLEAN
    /\ comparison = "pending"
    /\ not_gas_idle

Compare ==
    /\ comparison = "pending"
    /\ comparison' = compare([gas_consumed |-> estimate_gas_consumed],
                             receipt_actual_fee, header_gas_price,
                             build_overflow_checks)
    /\ UNCHANGED << estimate_gas_consumed, receipt_actual_fee, header_gas_price,
                    build_overflow_checks >>
    /\ UNCHANGED not_gas

NextGas == Compare

SpecGas == InitGas /\ [][NextGas]_vars

\* The gas the recorded fee paid for, and whether the estimate is off by
\* more than a fifth of it: |actual - estimated| > 0.2 * actual.
ActualGas ==
    receipt_actual_fee[1] \div (IF header_gas_price >= 1 THEN header_gas_price ELSE 1)

OffByMoreThanAFifth ==
    5 * (IF ActualGas >= estimate_gas_consumed
         THEN ActualGas - estimate_gas_consumed
         ELSE estimate_gas_consumed - ActualGas) > ActualGas

\* C16: a pass of the comparison loop never panics; for a receipt with no
\* fee or a fee of zero it gives no warning; and for a receipt with a
\* non-zero fee it warns exactly when the estimated gas differs from
\* actual_fee / max(gas_price, 1) by more than a fifth of the latter.
C16_Original ==
    comparison # "pending" =>
      /\ comparison # "panic"
      /\ IF receipt_actual_fee = None \/ receipt_actual_fee = Some(0)
         THEN comparison # "warn"
         ELSE comparison = "warn" <=> OffByMoreThanAFifth

\* The same where the fee fits a u128 and twice the actual gas does too.
Gas_InRange ==
    comparison # "pending" /\ receipt_actual_fee # None =>
      (receipt_actual_fee[1] <= U128_MAX /\ 2 * ActualGas <= U128_MAX => C16_Original)

(***************************************************************************)
(* HashChain.  The Pedersen hash is a free pairing H of field elements;    *)
(* a field element is << n >> for a number n or a pair made by H.  usize   *)
(* is scaled to USIZE_BYTES bytes.                                          *)
(***************************************************************************)
MaxChainLen == 3
FeltKinds == 3
USIZE_BYTES == 2

USIZE_MAX == 256 ^ USIZE_BYTES - 1

Felt(n) == << n >>

pedersen_hash(a, b) == << "H", a, b >>

ChainValues == {Felt(n) : n \in 0 .. FeltKinds - 1}

ChainInputs == UNION {[1 .. n -> ChainValues] : n \in 0 .. MaxChainLen}

\* usize::checked_add
checked_add_usize(a, b) == IF a + b > USIZE_MAX THEN None ELSE Some(a + b)

\* usize::to_be_bytes: the bytes of n, most significant first.
to_be_bytes(n) == [k \in 1 .. USIZE_BYTES |-> (n \div 256 ^ (USIZE_BYTES - k)) % 256]

\* Felt::from_be_slice: the field element the bytes are the digits of.
RECURSIVE be_value(_)
be_value(bytes) ==
    IF bytes = << >> THEN 0
    ELSE 256 * be_value(SubSeq(bytes, 1, Len(bytes) - 1)) + bytes[Len(bytes)]

from_be_slice(bytes) == Some(Felt(be_value(bytes)))

\* HashChain::default()
HashChain_default == [hash |-> Felt(0), count |-> 0]

\* update: .expect(..) takes the sum out of its Option.
update_swapped(chain, value) ==
    [hash |-> pedersen_hash(value, chain.hash),
     count |-> checked_add_usize(chain.count, 1)[1]]
update(chain, value) ==
    [hash |-> pedersen_hash(chain.hash, value),
     count |-> checked_add_usize(chain.count, 1)[1]]

chain_update(chain, value) == update(chain, value)

finalize(chain) ==
    LET count == from_be_slice(to_be_bytes(chain.count))[1]
    IN  pedersen_hash(chain.hash, count)

single(value) == finalize(chain_update(HashChain_default, value))

InitChain ==
    /\ chain_input \in ChainInputs
    /\ hash_chain = HashChain_default
    /\ chain_fed = 0
    /\ chain_call = "none"
    /\ chain_result = None
    /\ not_chain_idle

\* chain.update(value) with the next value.
Update ==
    /\ chain_call = "none"
    /\ chain_fed < Len(chain_input)
    /\ hash_chain' = update(hash_chain, chain_input[chain_fed + 1])
    /\ chain_fed' = chain_fed + 1
    /\ UNCHANGED << chain_input, chain_call, chain_result >>
    /\ UNCHANGED not_chain

\* chain = chain.chain_update(value) with the next value.
ChainUpdate ==
    /\ chain_call = "none"
    /\ chain_fed < Len(chain_input)
    /\ hash_chain' = chain_update(hash_chain, chain_input[chain_fed + 1])
    /\ chain_fed' = chain_fed + 1
    /\ UNCHANGED << chain_input, chain_call, chain_result >>
    /\ UNCHANGED not_chain

\* chain.finalize() once every value is in.
Finalize ==
    /\ chain_call = "none"
    /\ chain_fed = Len(chain_input)
    /\ chain_result' = Some(finalize(hash_chain))
    /\ chain_call' = "finalize"
    /\ UNCHANGED << chain_input, hash_chain, chain_fed >>
    /\ UNCHANGED not_chain

\* HashChain::single(value) for a lone value.
Single ==
    /\ chain_call = "none"
    /\ chain_fed = 0
    /\ Len(chain_input) = 1
    /\ chain_result' = Some(single(chain_input[1]))
    /\ chain_call' = "single"
    /\ UNCHANGED << chain_input, hash_chain, chain_fed >>
    /\ UNCHANGED not_chain

NextChain == Update \/ ChainUpdate \/ Finalize \/ Single

SpecChain == InitChain /\ [][NextChain]_vars

\* acc = H(...H(H(0, v1), v2)..., vn), and 0 for no value.
RECURSIVE Acc(_)
Acc(values) ==
    IF values = << >> THEN Felt(0)
    ELSE << "H", Acc(SubSeq(values, 1, Len(values) - 1)), values[Len(values)] >>

\* C17: a default chain updated with v1..vn, by update or chain_update,
\* has count n and accumulator acc = H(...H(H(0, v1), v2)..., vn); it
\* finalizes to H(acc, n), so the empty chain to H(0, 0); single(v) is
\* H(H(0, v), 1); and chain_update gives the chain update gives.
C17_HashChain ==
    /\ hash_chain.count = chain_fed
    /\ hash_chain.hash = Acc(SubSeq(chain_input, 1, chain_fed))
    /\ \A v \in ChainValues : chain_update(hash_chain, v) = update(hash_chain, v)
    /\ chain_call = "finalize" =>
         /\ chain_result = Some(<< "H", Acc(chain_input), << Len(chain_input) >> >>)
         /\ chain_input = << >> => chain_result = Some(<< "H", << 0 >>, << 0 >> >>)
    /\ chain_call = "single" =>
         chain_result = Some(<< "H", << "H", << 0 >>, chain_input[1] >>, << 1 >> >>)

\* A chain of three values, not all alike, finalized.
C17_Witness ==
    /\ chain_call = "finalize"
    /\ Len(chain_input) = 3
    /\ chain_input[1] # chain_input[2]
    /\ hash_chain.count = 3

(***************************************************************************)
(* Protocol: the inbound and outbound upgrades of a substream.             *)
(***************************************************************************)
MaxProtocols == 2
ProtocolKinds == 3
StreamCount == 3

ProtocolNames == {<< "/protocol", k >> : k \in 1 .. ProtocolKinds}

Streams == 1 .. StreamCount

ProtocolLists == UNION {[1 .. n -> ProtocolNames] : n \in 1 .. MaxProtocols}

\* self.protocols.clone().into_iter()
protocol_info(self) == self.protocols

\* futures::future::ready
ready(output) == [poll |-> "Ready", output |-> output]

upgrade_inbound(self, io_, protocol_) == ready(Ok(<< io_, protocol_ >>))

upgrade_outbound_first(self, io_, protocol_) == ready(Ok(<< io_, self.protocols[1] >>))
upgrade_outbound(self, io_, protocol_) == ready(Ok(<< io_, protocol_ >>))

\* A Protocol value, a substream, and a protocol negotiated among those the
\* value advertises.
InitUpgrade ==
    /\ protocols \in ProtocolLists
    /\ io \in Streams
    /\ protocol \in {protocol_info([protocols |-> protocols])[k] : k \in 1 .. Len(protocols)}
    /\ upgrade_called = "none"
    /\ upgrade_future = None
    /\ not_upgrade_idle

UpgradeInbound ==
    /\ upgrade_called = "none"
    /\ upgrade_future' = Some(upgrade_inbound([protocols |-> protocols], io, protocol))
    /\ upgrade_called' = "inbound"
    /\ UNCHANGED << protocols, io, protocol >>
    /\ UNCHANGED not_upgrade

UpgradeOutbound ==
    /\ upgrade_called = "none"
    /\ upgrade_future' = Some(upgrade_outbound([protocols |-> protocols], io, protocol))
    /\ upgrade_called' = "outbound"
    /\ UNCHANGED << protocols, io, protocol >>
    /\ UNCHANGED not_upgrade

NextUpgrade == UpgradeInbound \/ UpgradeOutbound

SpecUpgrade == InitUpgrade /\ [][NextUpgrade]_vars

\* C18: for any substream and negotiated protocol, upgrade_inbound and
\* upgrade_outbound return a future that is ready at once with Ok of the
\* pair (the substream, the negotiated protocol), the same for both, and
\* never with an error.
C18_Upgrade ==
    /\ upgrade_called # "none" =>
         /\ upgrade_future[1].poll = "Ready"
         /\ upgrade_future[1].output.ok
         /\ upgrade_future[1].output.v = << io, protocol >>
    /\ upgrade_inbound([protocols |-> protocols], io, protocol)
         = upgrade_outbound([protocols |-> protocols], io, protocol)

\* An outbound upgrade with a negotiated protocol that is not the first
\* one advertised.
C18_Witness ==
    /\ upgrade_called = "outbound"
    /\ Len(protocols) = 2
    /\ protocol # protocols[1]
    /\ upgrade_future[1].output.v = << io, protocol >>

(***************************************************************************)
(* trace_block_transactions.  Blocks 0 .. TRACE_BLOCKS - 1 are stored and  *)
(* block TRACE_BLOCKS is the pending one; the version of a block, whether  *)
(* its execution fails and its traces are fixed functions of its number.   *)
(* The trace cache and the executor are outside the function: the cache    *)
(* keeps, per block hash, a trace in flight or the result of one.          *)
(***************************************************************************)
NUM_CALLS == 3
TRACE_BLOCKS == 3

TraceCalls == 1 .. NUM_CALLS

TraceBlocks == 0 .. TRACE_BLOCKS

Pending == << "Pending" >>

TraceBlockIds == {Pending} \cup {Hash(BlockHashOf(n)) : n \in TraceBlocks}

\* What the pending block can be like: of a version traced locally and
\* executing, of an older version, or failing in the executor.
PendingStates == {"executes", "below_fallback", "execution_fails"}

\* header.starknet_version below the version traced locally.
VersionBelowFallback(n) ==
    IF n = TRACE_BLOCKS THEN pending_data = "below_fallback" ELSE n = 0

\* The executor fails on the block with an ExecutionError.
ExecutionFails(n) ==
    IF n = TRACE_BLOCKS THEN pending_data = "execution_fails" ELSE n = 2

TraceTransactions(n) == [j \in 1 .. TxCount(n) |-> StoredTxn(n, j)]

\* What the executor computes for a block that executes.
ExecutedTraces(n) ==
    [j \in 1 .. TxCount(n) |-> << TxHashOf(n, j), << "trace", n, j >> >>]

\* How the feeder gateway answers block_traces: not at all, with one trace
\* per transaction of the block, with one trace less or one more than the
\* node stores transactions for the block (the two can differ about a
\* block), or with a last trace whose invocation has no selector.
GatewayStates == {"up", "down", "short", "long", "unmappable"}

GatewayTrace(n, j, selector) == [of |-> << n, j >>, selector |-> selector]

GatewayTraceCount(n) ==
    IF gateway = "short" THEN (IF TxCount(n) = 0 THEN 0 ELSE TxCount(n) - 1)
    ELSE IF gateway = "long" THEN TxCount(n) + 1
    ELSE TxCount(n)

\* What the feeder gateway answers for a block.
GatewayTraces(n) ==
    [j \in 1 .. GatewayTraceCount(n) |->
        GatewayTrace(n, j, IF gateway = "unmappable" /\ j = GatewayTraceCount(n)
                           THEN None ELSE Some(<< "selector", n, j >>))]

TraceOutput(traces, include_state_diffs) ==
    [ok |-> TRUE, traces |-> traces, include_state_diffs |-> include_state_diffs,
     error |-> "none"]

TraceError(error) ==
    [ok |-> FALSE, traces |-> << >>, include_state_diffs |-> FALSE, error |-> error]

NoOutput == TraceError("pending call")

\* The header and transactions of the block a call names, or nothing for a
\* block that is not stored; the pending block has no hash.
trace_block(id) ==
    IF id = Pending
    THEN Some([number |-> TRACE_BLOCKS, hash |-> << "block_hash", "none" >>])
    ELSE IF id[2][2] < TRACE_BLOCKS
         THEN Some([number |-> id[2][2], hash |-> id[2]])
         ELSE None

\* The cache a call traces with: a fresh one for the pending block, the
\* context's for any other.
cache_for_always_fresh(id) == "fresh"
cache_for(id) == IF id = Pending THEN "fresh" ELSE "shared"

\* A gateway trace as a trace of the executor's type: its invocation
\* needs a selector, and the state diff is left at its default.
map_gateway_trace(transaction, trace) ==
    IF trace.selector = None THEN Err
    ELSE Ok([function_invocation |-> [of |-> trace.of, selector |-> trace.selector[1]],
             state_diff |-> "default"])

\* Iterator::zip: as many pairs as the shorter sequence has elements.
zip(left, right) ==
    [j \in 1 .. (IF Len(left) <= Len(right) THEN Len(left) ELSE Len(right)) |->
        << left[j], right[j] >>]

\* The gateway's traces zipped with the block's transactions and mapped,
\* each under the hash of its transaction; one trace that does not map
\* fails the call.
gateway_output(n) ==
    LET pairs  == zip(GatewayTraces(n), TraceTransactions(n))
        mapped == [j \in 1 .. Len(pairs) |-> map_gateway_trace(pairs[j][2], pairs[j][1])]
    IN  IF \E j \in 1 .. Len(pairs) : ~mapped[j].ok
        THEN TraceError("Internal")
        ELSE TraceOutput([j \in 1 .. Len(pairs) |-> << pairs[j][2].hash, mapped[j].v >>],
                         FALSE)

InitTrace ==
    /\ gateway \in GatewayStates
    /\ pending_data \in PendingStates
    /\ trace_cache = [h \in {BlockHashOf(n) : n \in TraceBlocks} |-> << >>]
    /\ calls \in [TraceCalls -> [block_id : TraceBlockIds, pc : {"start"},
                                 how : {"none"}, output : {NoOutput}]]
    /\ executions = [n \in TraceBlocks |-> 0]
    /\ not_trace_idle

CallBlock(c) == trace_block(calls[c].block_id)[1].number

Done(c, how, output) ==
    calls' = [calls EXCEPT ![c] = [block_id |-> @.block_id, pc |-> "done",
                                   how |-> how, output |-> output]]

\* The blocking part up to the call of the executor: the block is looked
\* up, an old version is sent to the gateway or refused for the pending
\* block.
Begin(c) ==
    /\ calls[c].pc = "start"
    /\ LET found == trace_block(calls[c].block_id) IN
         IF found = None THEN Done(c, "none", TraceError("BlockNotFound"))
         ELSE IF VersionBelowFallback(found[1].number)
              THEN IF calls[c].block_id = Pending
                   THEN Done(c, "none", TraceError("Internal"))
                   ELSE calls' = [calls EXCEPT ![c].pc = "gateway"]
              ELSE calls' = [calls EXCEPT ![c].pc = "trace"]
    /\ UNCHANGED << gateway, pending_data, trace_cache, executions >>
    /\ UNCHANGED not_trace

CallHash(c) == trace_block(calls[c].block_id)[1].hash

\* What a call makes of a finished trace: the traces with state diffs, or
\* the gateway for an ExecutionError.
after_trace_error_returned(c, item, how) ==
    IF item[1] = "CachedOk"
    THEN Done(c, how, TraceOutput(item[2], TRUE))
    ELSE Done(c, how, TraceError("Internal"))

after_trace(c, item, how) ==
    IF item[1] = "CachedOk"
    THEN Done(c, how, TraceOutput(item[2], TRUE))
    ELSE calls' = [calls EXCEPT ![c].pc = "gateway", ![c].how = how]

\* pathfinder_executor::trace entered: a cached result is taken, a trace
\* in flight is waited for, and otherwise the call starts the trace itself.
Lookup(c) ==
    /\ calls[c].pc = "trace"
    /\ IF cache_for(calls[c].block_id) = "fresh"
       THEN /\ calls' = [calls EXCEPT ![c].pc = "executing"]
            /\ executions' = [executions EXCEPT ![CallBlock(c)] = @ + 1]
            /\ UNCHANGED trace_cache
       ELSE LET item == trace_cache[CallHash(c)] IN
            IF item = << >>
            THEN /\ trace_cache' = [trace_cache EXCEPT ![CallHash(c)] = << "Inflight" >>]
                 /\ calls' = [calls EXCEPT ![c].pc = "executing"]
                 /\ executions' = [executions EXCEPT ![CallBlock(c)] = @ + 1]
            ELSE IF item = << "Inflight" >>
            THEN /\ calls' = [calls EXCEPT ![c].pc = "waiting"]
                 /\ UNCHANGED << trace_cache, executions >>
            ELSE /\ after_trace(c, item, "cached")
                 /\ UNCHANGED << trace_cache, executions >>
    /\ UNCHANGED << gateway, pending_data >>
    /\ UNCHANGED not_trace

\* The executor's result for a block.
execute_block(n) ==
    IF ExecutionFails(n) THEN << "CachedErr", << >> >>
    ELSE << "CachedOk", ExecutedTraces(n) >>

\* The trace the call started ends and, with the shared cache, is kept.
Execute(c) ==
    /\ calls[c].pc = "executing"
    /\ IF cache_for(calls[c].block_id) = "fresh"
       THEN UNCHANGED trace_cache
       ELSE trace_cache' = [trace_cache EXCEPT ![CallHash(c)] = execute_block(CallBlock(c))]
    /\ after_trace(c, execute_block(CallBlock(c)), "executed")
    /\ UNCHANGED << gateway, pending_data, executions >>
    /\ UNCHANGED not_trace

\* The trace a call waited for has ended.
Wake(c) ==
    /\ calls[c].pc = "waiting"
    /\ trace_cache[CallHash(c)] # << "Inflight" >>
    /\ after_trace(c, trace_cache[CallHash(c)], "waited")
    /\ UNCHANGED << gateway, pending_data, trace_cache, executions >>
    /\ UNCHANGED not_trace

\* The gateway fallback.
Gateway(c) ==
    /\ calls[c].pc = "gateway"
    /\ IF gateway = "down"
       THEN Done(c, "gateway", TraceError("Internal"))
       ELSE Done(c, "gateway", gateway_output(CallBlock(c)))
    /\ UNCHANGED << gateway, pending_data, trace_cache, executions >>
    /\ UNCHANGED not_trace

NextTrace ==
    \/ \E c \in TraceCalls : Begin(c)
    \/ \E c \in TraceCalls : Lookup(c)
    \/ \E c \in TraceCalls : Execute(c)
    \/ \E c \in TraceCalls : Wake(c)
    \/ \E c \in TraceCalls : Gateway(c)

SpecTrace == InitTrace /\ [][NextTrace]_vars

\* The output of a call for a stored block made alone.
SingleCallOutput(n) ==
    IF VersionBelowFallback(n) \/ ExecutionFails(n)
    THEN (IF gateway = "down" THEN TraceError("Internal") ELSE gateway_output(n))
    ELSE TraceOutput([j \in 1 .. TxCount(n) |->
                        << TxHashOf(n, j), << "trace", n, j >> >>], TRUE)

SameBlock(c, d) == calls[c].block_id = calls[d].block_id /\ calls[c].block_id # Pending

\* C19: concurrent calls for the same block hash on one shared cache
\* return the same output, the output of a call made alone, and the
\* block is traced at most once however many calls name it.
C19_Coalescing ==
    /\ \A c, d \in TraceCalls :
         SameBlock(c, d) /\ calls[c].pc = "done" /\ calls[d].pc = "done" =>
           /\ calls[c].output = calls[d].output
           /\ trace_block(calls[c].block_id) # None =>
                calls[c].output = SingleCallOutput(CallBlock(c))
    /\ \A n \in TraceBlocks : n < TRACE_BLOCKS => executions[n] <= 1

\* Three calls for one block, all answered alike: one traced it, one
\* waited for that trace, one found it in the cache.
C19_Witness ==
    /\ \A c \in TraceCalls : calls[c].pc = "done" /\ SameBlock(c, 1)
    /\ {calls[c].how : c \in TraceCalls} = {"executed", "waited", "cached"}
    /\ calls[1].output.ok /\ calls[1].output.include_state_diffs
    /\ executions[CallBlock(1)] = 1

(***************************************************************************)
(* C21.  The work items sent by the producer and not yet received by an    *)
(* executor are never more than the capacity of the channel (10 in the     *)
(* program, WORK_CHANNEL_CAPACITY here); and while the channel holds that  *)
(* many, a producer that is at its send stays there and sends nothing:     *)
(* the only step that lets it go on is an executor's receive.              *)
(***************************************************************************)
RECURSIVE SumUpTo(_, _)
SumUpTo(f, n) == IF n < 0 THEN 0 ELSE f[n] + SumUpTo(f, n - 1)

\* Sent and not yet received, counted from the two ends of the channel.
InFlight == Len(sent) - SumUpTo(received_count, POOL_BLOCK_MAX)

ProducerBlocked == main = "send" /\ InFlight = WORK_CHANNEL_CAPACITY

C21_BoundedQueue ==
    /\ [](InFlight >= 0 /\ InFlight <= WORK_CHANNEL_CAPACITY /\ InFlight = Len(work_channel))
    /\ [][ProducerBlocked => (main' = "send" /\ sent' = sent /\ InFlight' <= InFlight)]_vars
    /\ [][(ProducerBlocked /\ ~ProducerBlocked') =>
            (InFlight' = InFlight - 1 /\ \E w \in Executors : executors'[w].pc = "busy"
                                                         /\ executors[w].pc = "recv")]_vars

\* The producer is blocked on a full channel after executors have already
\* taken items from it.
C21_Witness ==
    /\ ProducerBlocked
    /\ Len(sent) > WORK_CHANNEL_CAPACITY
    /\ Len(work_channel) = WORK_CHANNEL_CAPACITY

(***************************************************************************)
(* C22.  When the receiving end of the response channel is closed after k  *)
(* frames of a response were sent (k less than the number of frames), the  *)
(* next step of `send` is the failed send: it returns an error, and the    *)
(* frames the channel accepted stay the first k for good, none of the      *)
(* remaining ones is sent.                                                 *)
(***************************************************************************)
FramesRemain == send_result = "sending" /\ send_pos < Len(send_seq)

C22_ClosedReceiver ==
    /\ [][(receiver = "closed" /\ FramesRemain) =>
            (send_result' = "err" /\ accepted' = accepted /\ channel' = channel)]_vars
    /\ [][send_result = "err" =>
            (send_result' = "err" /\ accepted' = accepted /\ send_pos' = send_pos)]_vars
    /\ [](send_result = "err" /\ send_seq # << >> =>
            /\ receiver = "closed"
            /\ send_pos < Len(send_seq)
            /\ accepted = SubSeq(send_seq, 1, send_pos)
            /\ channel = << >>)

\* The receiver took the first frame and went away; `send` failed with
\* frames left over.
C22_Witness ==
    /\ send_result = "err"
    /\ receiver = "closed"
    /\ send_pos >= 1
    /\ send_pos < Len(send_seq)
    /\ received # << >>
    /\ Len(accepted) = send_pos

(***************************************************************************)
(* C23.  In the body handler, a declared class whose stored definition is  *)
(* of the other kind (a Cairo id whose definition comes with CASM, a       *)
(* Sierra id whose definition comes without) is fatal for the request:     *)
(* the call of get_body on the declaring block returns an error, iterate   *)
(* returns that error with no frame at all -- no Fin::unknown() terminal,  *)
(* no frame of the blocks served before -- and no further block is         *)
(* visited.                                                                *)
(***************************************************************************)
KindMismatch(n) ==
    /\ tx.anomaly.at = n
    /\ \/ tx.anomaly.what = "cairo_with_casm" /\ DeclaredCairo(n) # << >>
       \/ tx.anomaly.what = "sierra_without_casm" /\ DeclaredSierra(n) # << >>

C23_KindMismatchFatal ==
    request.kind = "bodies" =>
      \A j \in 1 .. Len(visited) :
        KindMismatch(visited[j]) =>
          /\ j = Len(visited)
          /\ last_call[1].block_number = visited[j]
          /\ last_call[1].ret = "err"
          /\ pc = "done"
          /\ result = "err"
          /\ responses = << >>

\* A bodies request that had served a block met a Sierra class whose
\* definition is stored without CASM, and was aborted.
C23_Witness ==
    /\ request.kind = "bodies"
    /\ pc = "done"
    /\ result = "err"
    /\ last_call # None
    /\ KindMismatch(last_call[1].block_number)
    /\ tx.anomaly.what = "sierra_without_casm"
    /\ last_call[1].before # << >>

(***************************************************************************)
(* C24.  When the block handler reports a missing block, at whatever       *)
(* position of the walk, no later block is visited and the response ends   *)
(* with the terminal Fin::unknown(), also when the limit exceeded the      *)
(* ceiling; no response holds both Fin::too_much() and Fin::unknown().     *)
(***************************************************************************)
HasFin(resp, fin) == \E k \in 1 .. Len(resp) : IsFinOf(resp[k], fin)

C24_MissingBlock ==
    /\ \A j \in 1 .. Len(visited) :
         ~Existing(visited[j]) =>
           /\ j = Len(visited)
           /\ last_call[1].ret = "false"
           /\ last_call[1].after = last_call[1].before
           /\ pc \in {"finish", "done"}
           /\ ending_marker = Some(FinUnknown)
           /\ pc = "done" =>
                /\ result = "ok"
                /\ Terminals(responses) = << FromFin(request.kind, FinUnknown) >>
                /\ PayloadGroups(responses) = j - 1
    /\ Responded => ~(HasFin(responses, FinTooMuch) /\ HasFin(responses, FinUnknown))

\* A request for more than the ceiling met a missing block after it had
\* served one: the pending Fin::too_much() gave way to Fin::unknown().
C24_Witness ==
    /\ Responded
    /\ request.limit > MAX_BLOCKS_COUNT
    /\ last_call # None
    /\ last_call[1].ret = "false"
    /\ PayloadGroups(responses) >= 1
    /\ IsFinOf(LastFrame(responses), FinUnknown)
    /\ ~HasFin(responses, FinTooMuch)

(***************************************************************************)
(* C25.  get_next_block_number gives None exactly when current + step      *)
(* (Forward) or current - step (Backward), taken in unbounded integers,    *)
(* lies outside 0 .. BlockNumber::MAX, and that very number otherwise: it  *)
(* never wraps around.  When the walk leaves the range before the limit    *)
(* is reached, the response holds the groups of the blocks served so far   *)
(* and then Fin::unknown().                                                *)
(***************************************************************************)
InRange(n) == n >= 0 /\ n <= BLOCK_NUMBER_MAX

\* The number after the current block, in unbounded integers.
Target ==
    IF request.direction = "Forward" THEN block_number + request.step
    ELSE block_number - request.step

C25_NextBlockNumber ==
    /\ pc = "next" =>
         LET next == get_next_block_number(block_number, request.step, request.direction) IN
         /\ next = None <=> ~InRange(Target)
         /\ next # None => next = Some(Target)
    /\ (Responded /\ request.limit >= 1 /\ ~StartUnresolvable) =>
         \A k \in 1 .. Min(request.limit, MAX_BLOCKS_COUNT) - 1 :
           (/\ ~InRange(Walk(k))
            /\ \A j \in 0 .. k - 1 : InRange(Walk(j)) /\ Existing(Walk(j)))
             => /\ visited = [j \in 1 .. k |-> Walk(j - 1)]
                /\ PayloadGroups(responses) = k
                /\ Terminals(responses) = << FromFin(request.kind, FinUnknown) >>

\* Backward by one from a block above 0, for more blocks than there are
\* down to block 0: every block down to 0 is served, then Fin::unknown().
C25_Witness ==
    /\ Responded
    /\ request.direction = "Backward"
    /\ request.step = 1
    /\ request.limit <= MAX_BLOCKS_COUNT
    /\ ~StartUnresolvable
    /\ StartNumber >= 1
    /\ Len(visited) = StartNumber + 1
    /\ visited[Len(visited)] = 0
    /\ PayloadGroups(responses) = StartNumber + 1
    /\ IsFinOf(LastFrame(responses), FinUnknown)

(***************************************************************************)
(* C26.  iterate appends a Fin of its own only for truncation or error.    *)
(* After the last requested block (pass min(limit, ceiling) - 1) was       *)
(* served no further block number is computed; so a request with           *)
(* 1 <= limit <= ceiling all of whose blocks exist is answered by limit    *)
(* groups, the last frame being the last block's Fin::ok(), without any    *)
(* Fin::unknown() or Fin::too_much() -- also when the last served block is *)
(* block 0 going Backward or the highest block number going Forward.       *)
(***************************************************************************)
FullyServed ==
    /\ request.limit >= 1
    /\ request.limit <= MAX_BLOCKS_COUNT
    /\ ~StartUnresolvable
    /\ \A j \in 0 .. request.limit - 1 : InRange(Walk(j)) /\ Existing(Walk(j))

C26_NoOwnFin ==
    /\ [][(pc = "next" /\ i = limit - 1) =>
            (pc' = "finish" /\ block_number' = block_number
                /\ ending_marker' = ending_marker)]_vars
    /\ []((Responded /\ FullyServed) =>
            /\ Len(visited) = request.limit
            /\ PayloadGroups(responses) = request.limit
            /\ Terminals(responses) = << >>
            /\ IsFinOf(LastFrame(responses), FinOk)
            /\ "id" \in DOMAIN LastFrame(responses) =>
                 LastFrame(responses).id = Some(BlockId(Walk(request.limit - 1),
                                                        BlockHashOf(Walk(request.limit - 1))))
            /\ ~HasFin(responses, FinUnknown)
            /\ ~HasFin(responses, FinTooMuch))
    /\ []((Responded /\ request.limit >= 1 /\ Terminals(responses) # << >>) =>
            \/ request.limit > MAX_BLOCKS_COUNT
            \/ PayloadGroups(responses) < request.limit)

\* A request within the ceiling, fully served, whose last block is block 0
\* reached going Backward.
C26_Witness ==
    /\ Responded
    /\ FullyServed
    /\ request.limit >= 2
    /\ request.direction = "Backward"
    /\ visited[Len(visited)] = 0
    /\ Terminals(responses) = << >>

(***************************************************************************)
(* C27.  A call of the header handler whose queries succeed appends, for   *)
(* a block that has a header, one Header part, then one Signatures part    *)
(* if and only if a signature is stored for the block -- carrying the      *)
(* block's number and hash and exactly one ConsensusSignature, the stored  *)
(* (r, s) -- then Fin::ok(), and returns true; for a block without header  *)
(* it appends nothing and returns false.                                   *)
(***************************************************************************)
ExpectedHeaderParts(n) ==
    << [type |-> "Header", header |-> [number |-> n, hash |-> BlockHashOf(n)]] >>
    \o (IF HasSignature(n)
        THEN << [type |-> "Signatures",
                 block |-> [number |-> n, hash |-> BlockHashOf(n)],
                 signatures |-> << [r |-> << "r", n >>, s |-> << "s", n >>] >>] >>
        ELSE << >>)
    \o << [type |-> "Fin", fin |-> FinOk] >>

C27_HeaderParts ==
    (request.kind = "headers" /\ last_call # None /\ last_call[1].ret # "err") =>
      LET call == last_call[1]
          n == call.block_number
      IN  /\ Extends(call)
          /\ IF n \in tx.stored
             THEN /\ call.ret = "true"
                  /\ Appended(call) = ExpectedHeaderParts(n)
                  /\ Len(Appended(call)) = (IF HasSignature(n) THEN 3 ELSE 2)
             ELSE /\ call.ret = "false"
                  /\ call.after = call.before

\* The header handler served a block with a stored signature after another
\* block: Header, Signatures, Fin::ok().
C27_Witness ==
    /\ request.kind = "headers"
    /\ last_call # None
    /\ last_call[1].ret = "true"
    /\ last_call[1].before # << >>
    /\ HasSignature(last_call[1].block_number)
    /\ Len(Appended(last_call[1])) = 3
    /\ Appended(last_call[1])[2].type = "Signatures"

(***************************************************************************)
(* C28.  A call of the body handler that succeeds on a block with a stored *)
(* state update appends exactly three frames: Diff, one Classes frame      *)
(* holding one Class per newly declared class -- the Cairo classes first,  *)
(* then the Sierra classes; the frame is there even when no class was      *)
(* declared -- and Fin::ok(); all three carry the BlockId (number, block   *)
(* hash) of the block.  Without a stored state update the handler appends  *)
(* nothing and returns false.                                              *)
(***************************************************************************)
\* The declared classes of block n as the Classes frame lists them.
ExpectedClasses(n) ==
    [k \in 1 .. Len(DeclaredCairo(n)) |-> << "Cairo0", DeclaredCairo(n)[k] >>]
    \o [k \in 1 .. Len(DeclaredSierra(n)) |-> << "Cairo1", DeclaredSierra(n)[k][1] >>]

ListedClasses(frame) ==
    [k \in 1 .. Len(frame.payload.classes) |->
       << frame.payload.classes[k].class, frame.payload.classes[k].of >>]

C28_BodyFrames ==
    (request.kind = "bodies" /\ last_call # None /\ last_call[1].ret # "err") =>
      LET call == last_call[1]
          n == call.block_number
          app == Appended(call)
      IN  /\ Extends(call)
          /\ IF Existing(n)
             THEN /\ call.ret = "true"
                  /\ Len(app) = 3
                  /\ app[1].type = "Diff"
                  /\ app[2].type = "Classes"
                  /\ ListedClasses(app[2]) = ExpectedClasses(n)
                  /\ \A k \in 1 .. Len(app[2].payload.classes) :
                       (app[2].payload.classes[k].compiled # None)
                         <=> k > Len(DeclaredCairo(n))
                  /\ IsFinOf(app[3], FinOk)
                  /\ \A k \in 1 .. 3 : app[k].id = Some([number |-> n, hash |-> BlockHashOf(n)])
             ELSE /\ call.ret = "false"
                  /\ call.after = call.before

\* The body handler served, after another block, a block that declares a
\* Cairo and a Sierra class.
C28_Witness ==
    /\ request.kind = "bodies"
    /\ last_call # None
    /\ last_call[1].ret = "true"
    /\ Len(last_call[1].before) = 3
    /\ Len(Appended(last_call[1])) = 3
    /\ Len(Appended(last_call[1])[2].payload.classes) = 2
    /\ Appended(last_call[1])[2].payload.classes[1].class = "Cairo0"
    /\ Appended(last_call[1])[2].payload.classes[2].class = "Cairo1"

(***************************************************************************)
(* C29.  A call of the transactions (receipts) handler whose queries       *)
(* succeed appends, for a block whose id and transaction data are both     *)
(* stored, exactly two frames: one Transactions (Receipts) frame with one  *)
(* item per stored transaction, in block order, and Fin::ok(), both with   *)
(* the block's BlockId; if the block id or the transaction data is absent  *)
(* it appends nothing and returns false.                                   *)
(***************************************************************************)
ExpectedItem(kind, n, j) ==
    IF kind = "transactions" THEN [transaction |-> TxHashOf(n, j)]
    ELSE [receipt_of |-> TxHashOf(n, j), transaction |-> TxHashOf(n, j)]

C29_TransactionFrames ==
    (request.kind \in {"transactions", "receipts"} /\ last_call # None
        /\ last_call[1].ret # "err") =>
      LET call == last_call[1]
          n == call.block_number
          app == Appended(call)
      IN  /\ Extends(call)
          /\ IF Existing(n)
             THEN /\ call.ret = "true"
                  /\ Len(app) = 2
                  /\ app[1].type = (IF request.kind = "transactions"
                                    THEN "Transactions" ELSE "Receipts")
                  /\ Len(app[1].payload.items) = TxCount(n)
                  /\ \A j \in 1 .. TxCount(n) :
                       app[1].payload.items[j] = ExpectedItem(request.kind, n, j)
                  /\ IsFinOf(app[2], FinOk)
                  /\ \A k \in 1 .. 2 : app[k].id = Some([number |-> n, hash |-> BlockHashOf(n)])
             ELSE /\ call.ret = "false"
                  /\ call.after = call.before

\* The transactions handler served a block of two transactions after
\* another block.
C29_Witness ==
    /\ request.kind = "transactions"
    /\ last_call # None
    /\ last_call[1].ret = "true"
    /\ last_call[1].before # << >>
    /\ Len(Appended(last_call[1])) = 2
    /\ Len(Appended(last_call[1])[1].payload.items) = 2
    /\ Appended(last_call[1])[1].payload.items[1] # Appended(last_call[1])[1].payload.items[2]

(***************************************************************************)
(* C30.  A call of the events handler whose queries succeed appends, for a *)
(* block whose id and transaction data are stored, one Events frame and    *)
(* then Fin::ok().  The items of the frame are the events of the block's   *)
(* receipts, receipt after receipt in block order and within a receipt in  *)
(* stored order, each paired with the transaction hash of its receipt;     *)
(* their number is the sum of the receipts' event counts, and the frame is *)
(* there, empty, when the block has no event.                              *)
(***************************************************************************)
\* The number of events of the receipts before receipt j of block n.
RECURSIVE EventsBefore(_, _)
EventsBefore(n, j) == IF j <= 1 THEN 0 ELSE EventsBefore(n, j - 1) + EventCount(n, j - 1)

C30_EventsFrame ==
    (request.kind = "events" /\ last_call # None /\ last_call[1].ret # "err") =>
      LET call == last_call[1]
          n == call.block_number
          app == Appended(call)
      IN  /\ Extends(call)
          /\ IF Existing(n)
             THEN /\ call.ret = "true"
                  /\ Len(app) = 2
                  /\ app[1].type = "Events"
                  /\ Len(app[1].payload.items) = EventsBefore(n, TxCount(n) + 1)
                  /\ \A j \in 1 .. TxCount(n) :
                       \A k \in 1 .. EventCount(n, j) :
                         app[1].payload.items[EventsBefore(n, j) + k] =
                           [transaction_hash |-> TxHashOf(n, j),
                            event |-> << "event", n, j, k >>]
                  /\ IsFinOf(app[2], FinOk)
                  /\ \A k \in 1 .. 2 : app[k].id = Some([number |-> n, hash |-> BlockHashOf(n)])
             ELSE /\ call.ret = "false"
                  /\ call.after = call.before

\* The events handler served, after a block whose Events frame is empty, a
\* block of two receipts that both hold events, one of them several.
C30_Witness ==
    /\ request.kind = "events"
    /\ last_call # None
    /\ last_call[1].ret = "true"
    /\ Len(last_call[1].before) = 2
    /\ last_call[1].before[1].payload.items = << >>
    /\ Len(Appended(last_call[1])) = 2
    /\ LET items == Appended(last_call[1])[1].payload.items IN
         /\ Len(items) = 3
         /\ items[1].transaction_hash # items[2].transaction_hash
         /\ items[2].transaction_hash = items[3].transaction_hash
         /\ items[2].event # items[3].event

(***************************************************************************)
(* Serving one request from end to end: get_headers, get_bodies,           *)
(* get_transactions, get_receipts and get_events run the blocking getter   *)
(* on a database transaction opened for the request and then put what it   *)
(* returned on the response channel, while other threads of the node       *)
(* commit new blocks to the database.                                      *)
(***************************************************************************)
MaxCommits == 1

\* The forward walks from block 0 of no block, of one block, of the ceiling
\* and of more.
ServeRequests ==
    {r \in Requests : /\ r.start = Number(0)
                      /\ r.direction = "Forward"
                      /\ r.step = 1
                      /\ r.limit \in {0, 1, MAX_BLOCKS_COUNT, MaxLimit}}

\* How opening the connection and the transaction can end.
OpenOutcomes == {"ok", "err_connection", "err_transaction"}

\* p2p_proto::consts::MAX_HEADERS_PER_MESSAGE, scaled with the ceiling: the
\* build asserts that it is not below MAX_BLOCKS_COUNT.
MAX_HEADERS_PER_MESSAGE == MAX_BLOCKS_COUNT

\* What a transaction opened on `snapshot` reads once `committed` is the
\* state of the database: the snapshot.
visible_to_read_committed(snapshot, committed) == committed
visible_to(snapshot, committed) == snapshot

\* The messages a getter's result is sent as: get_headers sends the one
\* BlockHeadersResponse, the others send their frames one by one.
response_messages_per_part(kind, frames) ==
    IF kind = "headers" THEN [k \in 1 .. Len(frames) |-> [parts |-> << frames[k] >>]]
    ELSE frames
response_messages(kind, frames) ==
    IF kind = "headers" THEN << [parts |-> frames] >> ELSE frames

\* spawn_blocking_get(..).await? in the serving function: the messages to
\* send if the getter returned Ok, the error otherwise.  `built` is what
\* the block handler had written to its buffer when the getter returned.
await_blocking_get_lossy(kind, outcome, frames, built) ==
    IF outcome = "ok" THEN << "sending", response_messages(kind, frames) >>
    ELSE << "sending", response_messages(kind, built) >>
await_blocking_get(kind, outcome, frames, built) ==
    IF outcome = "ok" THEN << "sending", response_messages(kind, frames) >>
    ELSE << "err", << >> >>

\* A request arrives; the database holds a gapless chain, sound or with one
\* anomaly the request's handler can observe.
InitServe ==
    /\ request \in ServeRequests
    /\ \E head \in 1 .. BLOCK_NUMBER_MAX + 1 :
         \/ database = [stored |-> Prefix(head), anomaly |-> NoAnomaly]
         \/ \E at \in Prefix(head) :
              \E what \in QueryFaults(request.kind) \cup DataAnomalies(request.kind) :
                database = [stored |-> Prefix(head), anomaly |-> [what |-> what, at |-> at]]
    /\ commits = 0
    /\ tx = [stored |-> {}, anomaly |-> NoAnomaly]
    /\ pc = "open"
    /\ block_number = 0
    /\ limit = 0
    /\ i = 0
    /\ ending_marker = None
    /\ responses = << >>
    /\ result = "pending"
    /\ visited = << >>
    /\ last_call = None
    /\ send_seq = << >>
    /\ send_pos = 0
    /\ channel = << >>
    /\ accepted = << >>
    /\ received = << >>
    /\ receiver = "open"
    /\ send_result = "blocking"
    /\ pool_idle /\ gas_idle /\ chain_idle /\ upgrade_idle /\ trace_idle

\* spawn_blocking_get, lines 479-486: the connection and the transaction
\* are opened once, and the getter is given that transaction.
OpenTransaction ==
    /\ pc = "open"
    /\ \E outcome \in OpenOutcomes :
         IF outcome = "ok"
         THEN /\ tx' = database
              /\ pc' = "decode"
              /\ result' = result
         ELSE /\ tx' = tx
              /\ pc' = "done"
              /\ result' = "err"
    /\ UNCHANGED << request, block_number, limit, i, ending_marker, responses, visited,
                    last_call >>
    /\ UNCHANGED << send_vars, serve_vars, pool_vars, gas_vars, chain_vars, upgrade_vars,
                    trace_vars >>

\* Another thread commits the next block while the request is served.
Commit ==
    /\ pc # "done"
    /\ commits < MaxCommits
    /\ \E n \in Blocks \ database.stored :
         /\ \A m \in Blocks \ database.stored : n <= m
         /\ database' = [database EXCEPT !.stored = @ \cup {n}]
         /\ tx' = (IF pc = "open" THEN tx ELSE visible_to(tx, database'))
    /\ commits' = commits + 1
    /\ UNCHANGED << request, pc, block_number, limit, i, ending_marker, responses, result,
                    visited, last_call >>
    /\ UNCHANGED << send_vars, pool_vars, gas_vars, chain_vars, upgrade_vars, trace_vars >>

\* The serving function past its `.await?`: it starts sending, or returns
\* the error of the blocking work.
Respond ==
    /\ pc = "done"
    /\ send_result = "blocking"
    /\ LET got == await_blocking_get(request.kind, result, responses,
                                     IF last_call = None THEN << >> ELSE last_call[1].after)
       IN  /\ send_result' = got[1]
           /\ send_seq' = got[2]
    /\ UNCHANGED << send_pos, channel, accepted, received, receiver >>
    /\ UNCHANGED not_send

NextServe ==
    \/ OpenTransaction
    \/ Commit
    \/ Decode
    \/ CheckLimit
    \/ ResolveStart
    \/ ClampLimit
    \/ HandleBlock
    \/ NextBlock
    \/ Finish
    \/ Respond
    \/ SendElem
    \/ SendFailed
    \/ SendReturn
    \/ Receive
    \/ CloseReceiver

SpecServe == InitServe /\ [][NextServe]_vars

(***************************************************************************)
(* C31.  Serving is all-or-nothing with respect to database errors.  No    *)
(* frame reaches the response channel before the blocking database work    *)
(* of the request has returned its whole frame list; and if that work      *)
(* fails -- the connection, the transaction, a query of a handler or a     *)
(* class lookup -- no frame is ever sent, the frames of the blocks the     *)
(* handler had processed successfully included, and the serving function   *)
(* returns the error.                                                      *)
(***************************************************************************)
NothingSent == accepted = << >> /\ channel = << >> /\ received = << >>

C31_AllOrNothing ==
    /\ (pc # "done" \/ send_result = "blocking") => NothingSent
    /\ result = "err" =>
         /\ NothingSent
         /\ send_result \in {"blocking", "err"}
         /\ send_seq = << >>
    /\ (result = "ok" /\ send_result # "blocking") =>
         /\ send_seq = response_messages(request.kind, responses)
         /\ accepted = SubSeq(send_seq, 1, send_pos)

\* The body handler failed on a class lookup after a block had been
\* processed successfully; the serving function returned the error to an
\* open receiver that got nothing.
C31_Witness ==
    /\ request.kind = "bodies"
    /\ result = "err"
    /\ send_result = "err"
    /\ receiver = "open"
    /\ last_call # None
    /\ Len(last_call[1].before) >= 3
    /\ Len(last_call[1].after) > Len(last_call[1].before)
    /\ tx.anomaly.what = "class_missing"
    /\ NothingSent

(***************************************************************************)
(* C32.  All reads of one request -- the resolution of the start and every *)
(* block the iteration visits -- go through the one transaction opened for *)
(* the request: a block committed by another thread while the request runs *)
(* is not observed.  The response is the one the snapshot of the moment    *)
(* the transaction was opened gives: it serves blocks of the snapshot      *)
(* only, and ends where the snapshot ends.                                 *)
(***************************************************************************)
C32_SingleSnapshot ==
    /\ [][pc # "open" => tx' = tx]_vars
    /\ [](pc # "open" /\ result # "err" => tx.stored \subseteq database.stored)
    /\ []((pc = "done" /\ result = "ok") =>
            /\ \A k \in 1 .. Len(responses) :
                 IsPayload(responses[k]) => Existing(FrameBlock(responses[k]))
            /\ PayloadGroups(responses)
                 = Reachable(Min(request.limit, MAX_BLOCKS_COUNT))
            /\ \A j \in 1 .. Len(visited) : visited[j] = Walk(j - 1))

\* A block was committed while the request was running; the walk came to
\* that block, did not see it, and ended with Fin::unknown().
C32_Witness ==
    /\ pc = "done"
    /\ result = "ok"
    /\ commits = 1
    /\ database.stored # tx.stored
    /\ last_call # None
    /\ last_call[1].ret = "false"
    /\ last_call[1].block_number \in database.stored \ tx.stored
    /\ last_call[1].before # << >>
    /\ IsFinOf(LastFrame(responses), FinUnknown)

(***************************************************************************)
(* C33.  A headers request that is served is answered with exactly one     *)
(* BlockHeadersResponse message, holding all the parts; for every limit    *)
(* the number of its Header parts is at most MAX_BLOCKS_COUNT, which is at *)
(* most MAX_HEADERS_PER_MESSAGE.                                           *)
(***************************************************************************)
HeaderParts(message) ==
    Cardinality({k \in 1 .. Len(message.parts) : message.parts[k].type = "Header"})

C33_OneHeadersMessage ==
    request.kind = "headers" =>
      /\ Len(accepted) <= 1
      /\ (result = "ok" /\ send_result # "blocking") =>
           /\ Len(send_seq) = 1
           /\ send_seq[1].parts = responses
           /\ HeaderParts(send_seq[1]) <= MAX_BLOCKS_COUNT
           /\ HeaderParts(send_seq[1]) <= MAX_HEADERS_PER_MESSAGE
           /\ HeaderParts(send_seq[1]) =
                Len(visited) - (IF last_call # None /\ last_call[1].ret = "false" THEN 1 ELSE 0)
      /\ send_result = "ok" => accepted = send_seq
      /\ MAX_BLOCKS_COUNT <= MAX_HEADERS_PER_MESSAGE

\* A request for more headers than the ceiling, served up to the ceiling in
\* one message that the receiver took.
C33_Witness ==
    /\ request.kind = "headers"
    /\ request.limit > MAX_BLOCKS_COUNT
    /\ send_result = "ok"
    /\ Len(received) = 1
    /\ HeaderParts(received[1]) = MAX_BLOCKS_COUNT
    /\ Len(received[1].parts) > 2 * MAX_BLOCKS_COUNT

(***************************************************************************)
(* C34.  Every Work item on the channel or in the hands of an executor     *)
(* has as many transactions as receipts, transaction j and receipt j being *)
(* the two halves of the j-th stored (transaction, receipt) pair of the    *)
(* block; and the executor compares estimate j with receipt j: the         *)
(* warnings of a re-executed block are those of the positions j at which   *)
(* the estimate of transaction j is off the gas paid for by receipt j.     *)
(***************************************************************************)
WorkItems ==
    {work_channel[k] : k \in 1 .. Len(work_channel)}
      \cup {executors[w].work[1] : w \in {v \in Executors : executors[v].work # None}}

Paired(work) ==
    LET n == work.header.number IN
    /\ Len(work.transactions) = Len(work.receipts)
    /\ Len(work.transactions) = TxCount(n)
    /\ \A j \in 1 .. Len(work.transactions) :
         /\ work.transactions[j] = StoredTxn(n, j)
         /\ work.receipts[j] = StoredReceipt(n, j)
         /\ work.transactions[j].hash = work.receipts[j].transaction_hash

\* Receipt j of block n carries a fee that estimate j misses by more than
\* a fifth of the gas the fee paid for.
ExpectedMismatch(n, j) ==
    /\ ActualFeeOf(n, j) # None
    /\ ActualFeeOf(n, j)[1] # 0
    /\ LET paid == ActualFeeOf(n, j)[1] \div (IF GasPriceOf(n) = 0 THEN 1 ELSE GasPriceOf(n))
           gap == IF paid >= EstimatedGasOf(n, j) THEN paid - EstimatedGasOf(n, j)
                  ELSE EstimatedGasOf(n, j) - paid
       IN  gap > (2 * paid) \div 10

C34_PositionalPairing ==
    /\ \A work \in WorkItems : Paired(work)
    /\ \A n \in PoolBlocks :
         (<< "debug", "Re-executed block", n >> \in log
            /\ << "error", "Transaction re-execution failed", n >> \notin log)
           => \A j \in 1 .. 2 :
                << "warn", "Estimation mismatch", n, j >> \in log
                  <=> (j <= TxCount(n) /\ ExpectedMismatch(n, j))

\* A block of two transactions was re-executed: the first estimate was off
\* its receipt and was reported, the second was not.
C34_Witness ==
    \E n \in PoolBlocks :
      /\ TxCount(n) = 2
      /\ << "debug", "Re-executed block", n >> \in log
      /\ << "warn", "Estimation mismatch", n, 1 >> \in log
      /\ << "warn", "Estimation mismatch", n, 2 >> \notin log

(***************************************************************************)
(* C35.  As claimed: whenever the pool has shut down, every work item the  *)
(* producer sent has been received and processed by an executor.  This     *)
(* fails when main ends early: a load error makes it return at once, and   *)
(* the join of a panicked executor makes it panic, with items still queued *)
(* or being processed.                                                     *)
(***************************************************************************)
Processed(n) ==
    \/ << "debug", "Re-executed block", n >> \in log
    \/ << "error", "Transaction conversion failed", n >> \in log

AllSentProcessed ==
    \A k \in 1 .. Len(sent) : received_count[sent[k]] = 1 /\ Processed(sent[k])

NoExecutorAlive == \A w \in Executors : executors[w].pc \in {"exited", "panicked"}

ProducerStuck == main = "send" /\ is_full(work_channel) /\ NoExecutorAlive

C36_Original ==
    /\ \/ ~ProcessAlive
       \/ ENABLED MainStep
       \/ \E w \in Executors : ENABLED ExecutorStep(w)
    /\ ~ProducerStuck

\* Without an outage of the database the pool never comes to a standstill
\* before main has ended.
Pool_NoStandstill ==
    db.anomaly.what \notin PoolOutageFaults =>
      /\ \/ ~ProcessAlive
         \/ ENABLED MainStep
         \/ \E w \in Executors : ENABLED ExecutorStep(w)
      /\ ~ProducerStuck

(***************************************************************************)
(* C37.  A call returns include_state_diffs = true exactly when its traces *)
(* were computed by local execution, and these are then the executor's     *)
(* traces of the block.  For a stored block of a version below the         *)
(* fallback threshold, or one on which local execution fails with an       *)
(* ExecutionError, the call ends at the gateway: with a gateway that       *)
(* answers with the block's traces it returns them with                    *)
(* include_state_diffs = false, and the only error it can return is the    *)
(* gateway's, never one for the failed local execution.                    *)
(***************************************************************************)
LocalHows == {"executed", "waited", "cached"}

Returned(c) == calls[c].pc = "done" /\ calls[c].output.ok

FallsBack(n) == VersionBelowFallback(n) \/ ExecutionFails(n)

C37_StateDiffsIffLocal ==
    \A c \in TraceCalls :
      /\ Returned(c) =>
           /\ calls[c].output.include_state_diffs <=> calls[c].how \in LocalHows
           /\ ~calls[c].output.include_state_diffs <=> calls[c].how = "gateway"
           /\ calls[c].output.include_state_diffs =>
                /\ ~FallsBack(CallBlock(c))
                /\ calls[c].output.traces =
                     [j \in 1 .. TxCount(CallBlock(c)) |->
                        << TxHashOf(CallBlock(c), j), << "trace", CallBlock(c), j >> >>]
      /\ /\ calls[c].pc = "done"
         /\ calls[c].block_id # Pending
         /\ trace_block(calls[c].block_id) # None
         /\ FallsBack(CallBlock(c))
         => /\ calls[c].how = "gateway"
            /\ ~calls[c].output.include_state_diffs
            /\ gateway = "up" =>
                 /\ calls[c].output.ok
                 /\ Len(calls[c].output.traces) = TxCount(CallBlock(c))
            /\ ~calls[c].output.ok => gateway \in {"down", "unmappable"}

\* One call answered from local execution with state diffs, one for a
\* block whose execution failed and one for a block of an old version, both
\* answered by the gateway without state diffs.
C37_Witness ==
    /\ \A c \in TraceCalls : Returned(c) /\ calls[c].block_id # Pending
    /\ calls[1].how = "executed" /\ calls[1].output.include_state_diffs
    /\ ExecutionFails(CallBlock(2)) /\ calls[2].how = "gateway"
    /\ ~calls[2].output.include_state_diffs /\ calls[2].output.traces # << >>
    /\ VersionBelowFallback(CallBlock(3)) /\ calls[3].how = "gateway"
    /\ ~calls[3].output.include_state_diffs

(***************************************************************************)
(* C38.  As claimed: a call for a block id that is not the pending one and *)
(* whose header is not stored returns BlockNotFound without executing      *)
(* anything and without contacting the gateway; a call for the pending     *)
(* block never uses the shared trace cache and never falls back to the     *)
(* gateway.  The last part fails: the ExecutionError arm of the match on   *)
(* the executor's result sends a pending call to the gateway like any      *)
(* other.                                                                  *)
(***************************************************************************)
Missing(c) == calls[c].block_id # Pending /\ trace_block(calls[c].block_id) = None

MissingNotFound ==
    \A c \in TraceCalls : Missing(c) =>
      /\ calls[c].pc \in {"start", "done"}
      /\ calls[c].pc = "done" =>
           calls[c].how = "none" /\ calls[c].output = TraceError("BlockNotFound")

PendingFreshCache ==
    \A c \in TraceCalls : calls[c].block_id = Pending =>
      /\ calls[c].pc # "waiting"
      /\ calls[c].how \notin {"waited", "cached"}
      /\ calls[c].pc \in {"executing", "gateway", "done"} /\ calls[c].how # "none" =>
           executions[TRACE_BLOCKS] >= 1

PendingAtGateway(c) ==
    /\ calls[c].block_id = Pending
    /\ calls[c].pc = "gateway" \/ (calls[c].pc = "done" /\ calls[c].how = "gateway")

C38_Original ==
    /\ MissingNotFound
    /\ PendingFreshCache
    /\ \A c \in TraceCalls : ~PendingAtGateway(c)

\* What holds of these: the missing block and the fresh cache as claimed,
\* and a pending call is at the gateway only after its execution failed.
Trace_MissingAndPending ==
    /\ MissingNotFound
    /\ PendingFreshCache
    /\ \A c \in TraceCalls : PendingAtGateway(c) => pending_data = "execution_fails"

(***************************************************************************)
(* C39.  As claimed: a call answered on the gateway path returns exactly   *)
(* one trace per transaction of the block, in block order, the i-th        *)
(* gateway trace under the hash of the i-th stored transaction; and if a   *)
(* trace fails to map the call fails and returns no list.  The first part  *)
(* fails where the gateway answers with fewer traces than the node stores  *)
(* transactions for the block: the two lists are zipped, and the call      *)
(* returns the shorter list without an error.                              *)
(***************************************************************************)
AnsweredByGateway(c) ==
    calls[c].pc = "done" /\ calls[c].how = "gateway" /\ gateway # "down"

\* The j-th element of the output is the j-th gateway trace under the hash
\* of the j-th stored transaction.
KeyedInOrder(c) ==
    \A j \in 1 .. Len(calls[c].output.traces) :
      /\ calls[c].output.traces[j][1] = TxHashOf(CallBlock(c), j)
      /\ calls[c].output.traces[j][2].function_invocation.of = << CallBlock(c), j >>

\* One of the gateway traces that are paired with a transaction has no
\* selector.
SomeUnmappable(n) ==
    \E j \in 1 .. Len(GatewayTraces(n)) :
      j <= TxCount(n) /\ GatewayTraces(n)[j].selector = None

C39_Original ==
    \A c \in TraceCalls : AnsweredByGateway(c) =>
      IF SomeUnmappable(CallBlock(c))
      THEN ~calls[c].output.ok /\ calls[c].output.traces = << >>
      ELSE /\ calls[c].output.ok
           /\ Len(calls[c].output.traces) = TxCount(CallBlock(c))
           /\ KeyedInOrder(c)

\* What holds: the output is as long as the shorter of the two lists,
\* keyed in order, and so one trace per transaction whenever the gateway
\* answers with at least as many traces as the block has transactions; an
\* unmappable trace fails the call.
Trace_GatewayZip ==
    \A c \in TraceCalls : AnsweredByGateway(c) =>
      IF SomeUnmappable(CallBlock(c))
      THEN ~calls[c].output.ok /\ calls[c].output.traces = << >>
      ELSE /\ calls[c].output.ok
           /\ Len(calls[c].output.traces) =
                (IF gateway = "short" /\ TxCount(CallBlock(c)) > 0
                 THEN TxCount(CallBlock(c)) - 1 ELSE TxCount(CallBlock(c)))
           /\ KeyedInOrder(c)

\* A call for a block of two transactions answered by a gateway that
\* holds one trace for it.
Trace_ShortAnswer ==
    \E c \in TraceCalls :
      /\ AnsweredByGateway(c) /\ gateway = "short"
      /\ TxCount(CallBlock(c)) = 2 /\ calls[c].output.ok
      /\ Len(calls[c].output.traces) = 1

=============================================================================
